---- MODULE Spec2Model ----
(***************************************************************************)
(* Model of the ENS resolution client of ens-social                        *)
(* (src/lib/ens/resolver.ts): the endpoint pool, the shared cursor and     *)
(* client handle, the retry helper withRetry, the exported operations      *)
(* built on it, and getAllTextRecords with its per-key lookups; and of the *)
(* POST handler of the friendship API (src/app/api/friendship/route.ts),   *)
(* which validates names through resolveENSName before it stores users;    *)
(* and of the handlers that delete a friendship or a user                  *)
(* (src/app/api/user/route.ts) and read the graph                          *)
(* (src/app/api/graph/route.ts) on the same store.                         *)
(*                                                                         *)
(* JavaScript runs each continuation to completion: a logical call changes *)
(* shared state only when it is invoked and when one of its transport      *)
(* requests settles.  Each such continuation is one action here.  Calls in *)
(* flight are kept in a bag, since two calls of the same operation in the  *)
(* same position are interchangeable.                                      *)
(***************************************************************************)
EXTENDS Integers, Sequences, FiniteSets, Bags, TLC

VARIABLES
    env,              \* process.env.ETHEREUM_RPC_URL at module load
    down,             \* endpoints unavailable for good (SpecDown); empty
                      \* where any request may fail or be answered
    RPC_ENDPOINTS,    \* the endpoint pool
    provider,         \* the shared client handle: NULL or the URL it is bound to
    currentRpcIndex,  \* the endpoint cursor (0-based, as in the source)
    calls,            \* bag of logical calls in flight
    all,              \* the getAllTextRecords call in flight, if any
    returned,         \* the call that returned in the last step, if any
    runStart,         \* cursor at the start of the current run of failures
    runLen,           \* number of consecutive failed attempts in that run
    users,            \* the user table: records [id, ensName, address]
    friendships,      \* the friendship table: records [id, initiatorId, receiverId]
    nextId,           \* the next fresh row id
    posts,            \* bag of POST /api/friendship requests in flight
    responded,        \* the response sent in the last step, if any
    requests,         \* bag of DELETE and GET requests in flight
    replied           \* the response to one of those sent in the last step

\* The store and the requests of the API.
store == <<users, friendships, nextId, posts, responded, requests, replied>>

vars == <<env, down, RPC_ENDPOINTS, provider, currentRpcIndex, calls, all, returned,
          runStart, runLen, store>>

----------------------------------------------------------------------------
(* Values *)

NULL == "<null>"
UNDEFINED == "<undefined>"
NONE == "<none>"

\* JavaScript truthiness of a string | null | undefined value.
Boolean(x) == x \notin {NULL, UNDEFINED, ""}

----------------------------------------------------------------------------
(* Bounds *)

\* Logical calls (exported operations and per-key lookups) in flight at once.
MaxCalls == 2
\* Keys of COMMON_TEXT_RECORDS that getAllTextRecords dispatches in the model.
NumKeys == 2
\* Longest run of consecutive failed attempts followed in SpecRun.
MaxRun == 6
\* POST /api/friendship requests in flight at once in SpecApi.
MaxPosts == 2
\* Requests of any kind in flight at once in SpecStore.
MaxInFlight == 2
\* SpecStore accepts POST requests while the next row id is at most MaxId.
MaxId == 4

----------------------------------------------------------------------------
(* The endpoint pool *)

FallbackEndpoints ==
    << "https://eth.drpc.org",
       "https://rpc.ankr.com/eth",
       "https://ethereum.publicnode.com",
       "https://eth.llamarpc.com" >>

\* Values of ETHEREUM_RPC_URL considered: unset, empty, and a URL.
EnvChoices == {UNDEFINED, "", "https://mainnet.example/rpc"}

\* Bug variant: the unset primary is not filtered out of the pool.
BuildEndpoints_noFilter(envUrl) == <<envUrl>> \o FallbackEndpoints

\* [process.env.ETHEREUM_RPC_URL, ...fallbacks].filter(Boolean)
BuildEndpoints(envUrl) == SelectSeq(<<envUrl>> \o FallbackEndpoints, Boolean)


\* Calls in flight at once in SpecDown.
DownCalls == 4

\* Number of attempts of one withRetry call (its default parameter).
retries == 3
\* Number of attempts of one getTextRecordWithRetry call (its default parameter).
textRetries == 3

----------------------------------------------------------------------------
(* The module state and the two functions that change it *)

\* The three module-level bindings, as one value the functions below transform.
Module ==
    [RPC_ENDPOINTS |-> RPC_ENDPOINTS, provider |-> provider,
     currentRpcIndex |-> currentRpcIndex]

\* new ethers.JsonRpcProvider(url): a handle is identified by the URL it is
\* bound to.
JsonRpcProvider(url) == url

getProvider(m) ==
    IF ~Boolean(m.provider)
    THEN [m EXCEPT !.provider =
              JsonRpcProvider(m.RPC_ENDPOINTS[m.currentRpcIndex + 1])]
    ELSE m

\* Bug variant: the cursor advances but the old handle is kept.
rotateProvider_keepHandle(m) ==
    [m EXCEPT !.currentRpcIndex = (@ + 1) % Len(m.RPC_ENDPOINTS)]

\* Bug variant: the cursor advances by two positions.
rotateProvider_skip(m) ==
    LET idx == (m.currentRpcIndex + 2) % Len(m.RPC_ENDPOINTS)
    IN  [m EXCEPT !.currentRpcIndex = idx,
                  !.provider = JsonRpcProvider(m.RPC_ENDPOINTS[idx + 1])]

\* Bug variant: the cursor is not reduced modulo the pool size; an index past
\* the end reads undefined, and the handle built from it is bound to no
\* endpoint.
rotateProvider_noWrap(m) ==
    LET idx == m.currentRpcIndex + 1
    IN  [m EXCEPT !.currentRpcIndex = idx,
                  !.provider = IF idx < Len(m.RPC_ENDPOINTS)
                               THEN JsonRpcProvider(m.RPC_ENDPOINTS[idx + 1])
                               ELSE JsonRpcProvider("<unbound>")]

\* Bug variant: the new handle is built before the cursor is advanced.
rotateProvider_staleIndex(m) ==
    [m EXCEPT !.currentRpcIndex = (@ + 1) % Len(m.RPC_ENDPOINTS),
              !.provider = JsonRpcProvider(m.RPC_ENDPOINTS[m.currentRpcIndex + 1])]

\* Bug variant: the failed endpoint is moved to the end of the pool.
rotateProvider_requeue(m) ==
    LET idx == (m.currentRpcIndex + 1) % Len(m.RPC_ENDPOINTS)
        pool == Tail(m.RPC_ENDPOINTS) \o <<Head(m.RPC_ENDPOINTS)>>
    IN  [m EXCEPT !.RPC_ENDPOINTS = pool,
                  !.currentRpcIndex = idx,
                  !.provider = JsonRpcProvider(pool[idx + 1])]

rotateProvider(m) ==
    LET idx == (m.currentRpcIndex + 1) % Len(m.RPC_ENDPOINTS)
    IN  [m EXCEPT !.currentRpcIndex = idx,
                  !.provider = JsonRpcProvider(m.RPC_ENDPOINTS[idx + 1])]

----------------------------------------------------------------------------
(* The transport: what the chain answers when a request succeeds *)

RESOLVER == "<resolver>"

Names == {"alice.eth", "nobody.eth"}
\* The names getAllTextRecords is called with: those, and a name that has a
\* resolver and no text record.
ProfileNames == Names \cup {"blank.eth"}
Addresses == {"0xA11CE", "0xDEAD"}

COMMON_TEXT_RECORDS ==
    << "email", "url", "avatar", "description", "notice", "keywords",
       "com.discord", "com.github", "com.reddit", "com.twitter",
       "org.telegram", "io.keybase" >>

\* provider.resolveName(name)
resolveName(name) ==
    IF name = "alice.eth" THEN "0xA11CE"
    ELSE IF name = "bob.eth" THEN "0xB0B"
    ELSE NULL
\* provider.lookupAddress(address)
reverseLookup(address) == IF address = "0xA11CE" THEN "alice.eth" ELSE NULL
\* provider.getResolver(name): a resolver object, or null
getResolver(name) ==
    IF name \in {"alice.eth", "blank.eth"} THEN RESOLVER ELSE NULL
\* resolver.getAvatar()
getAvatar(name) == IF name = "alice.eth" THEN "ipfs://alice" ELSE NULL
\* resolver.getText(key): alice.eth has an email, an empty url, nothing else
getText(name, key) ==
    IF name # "alice.eth" THEN NULL
    ELSE IF key = "email" THEN "alice@example.org"
    ELSE IF key = "url" THEN ""
    ELSE NULL

\* The keys getAllTextRecords dispatches a lookup for.
DispatchedKeys == SubSeq(COMMON_TEXT_RECORDS, 1, NumKeys)
KeySet == {DispatchedKeys[n] : n \in 1..Len(DispatchedKeys)}

----------------------------------------------------------------------------
(* Logical calls *)

WithRetryOps == {"resolveENSName", "lookupAddress", "getENSAvatar", "getENSText"}

EmptyMap == [k \in {} |-> NULL]

\* A logical call.  pc is the await it is suspended at: "fn" (the request of
\* the retried step) or "field" (resolver.getAvatar / resolver.getText).
\* i is the loop counter, handle the client handle the request in flight was
\* issued on, lastError the attempt whose error is held (-1: none).
\* sent, failed and fieldSent count the requests issued by the retried step,
\* the failures caught by the retry loop, and the field queries issued;
\* tried is the set of endpoints the attempts of the call were issued on,
\* where it is followed.
NewCall(op, arg, key) ==
    [op |-> op, arg |-> arg, key |-> key, pc |-> "new", i |-> 0,
     handle |-> NULL, lastError |-> -1, sent |-> 0, failed |-> 0,
     fieldSent |-> 0, tried |-> {}]

\* What a continuation ends with: the call suspended at an await, a value
\* returned, or an error thrown (error is then the attempt that raised it).
Await(c, m) == [kind |-> "await", value |-> NULL, error |-> -1, m |-> m, call |-> c]
Return(c, m, v) == [kind |-> "return", value |-> v, error |-> -1, m |-> m, call |-> c]
Throw(c, m, e) == [kind |-> "throw", value |-> NULL, error |-> e, m |-> m, call |-> c]

\* The endpoints each call has tried are followed where an endpoint is
\* unavailable for good (SpecDown), and not elsewhere.
Followed == down # {}

\* getProvider().<request>(...): the request goes out on the handle
\* getProvider returns at that moment.
issue(c, m) ==
    LET m1 == getProvider(m)
    IN  Await([c EXCEPT !.pc = "fn", !.handle = m1.provider, !.sent = @ + 1,
                        !.tried = IF Followed THEN @ \cup {m1.provider} ELSE @],
              m1)

\* Bug variant: the field query goes out on the shared handle of the moment
\* instead of the handle the resolver was obtained from.
issueField_sharedHandle(c, m) ==
    LET m1 == getProvider(m)
    IN  Await([c EXCEPT !.pc = "field", !.fieldSent = @ + 1, !.handle = m1.provider],
              m1)

\* resolver.getAvatar() / resolver.getText(key): the resolver object keeps
\* the handle it was obtained from.
issueField(c, m) == Await([c EXCEPT !.pc = "field", !.fieldSent = @ + 1], m)

\* Bug variant: the loop test is i <= retries, one attempt too many.
withRetry_offByOne(c, m, ok, v) ==
    IF ok THEN Return(c, m, v)
    ELSE LET m1 == rotateProvider(m)
             c1 == [c EXCEPT !.lastError = c.i, !.i = @ + 1, !.failed = @ + 1]
         IN  IF c1.i <= retries THEN issue(c1, m1)
             ELSE Throw(c1, m1, c1.lastError)

\* Bug variant: an answer of null is treated as a failed attempt.
withRetry_retryOnNull(c, m, ok, v) ==
    IF ok /\ Boolean(v) THEN Return(c, m, v)
    ELSE LET m1 == rotateProvider(m)
             c1 == [c EXCEPT !.lastError = c.i, !.i = @ + 1, !.failed = @ + 1]
         IN  IF c1.i < retries THEN issue(c1, m1)
             ELSE Throw(c1, m1, c1.lastError)

\* Bug variant: the loop gives up when the shared cursor wraps around, so
\* the rotations of other calls shorten the budget of this one.
withRetry_sharedBudget(c, m, ok, v) ==
    IF ok THEN Return(c, m, v)
    ELSE LET m1 == rotateProvider(m)
             c1 == [c EXCEPT !.lastError = c.i, !.i = @ + 1, !.failed = @ + 1]
         IN  IF c1.i < retries /\ m1.currentRpcIndex # 0 THEN issue(c1, m1)
             ELSE Throw(c1, m1, c1.lastError)

\* Bug variant: the failure of the last attempt is rethrown without a
\* rotation.
withRetry_noRotateOnLast(c, m, ok, v) ==
    IF ok THEN Return(c, m, v)
    ELSE LET c1 == [c EXCEPT !.lastError = c.i, !.i = @ + 1, !.failed = @ + 1]
         IN  IF c1.i < retries THEN issue(c1, rotateProvider(m))
             ELSE Throw(c1, m, c1.lastError)

\* Bug variant: the pool is rotated after a successful attempt as well.
withRetry_rotateOnSuccess(c, m, ok, v) ==
    IF ok THEN Return(c, rotateProvider(m), v)
    ELSE LET m1 == rotateProvider(m)
             c1 == [c EXCEPT !.lastError = c.i, !.i = @ + 1, !.failed = @ + 1]
         IN  IF c1.i < retries THEN issue(c1, m1)
             ELSE Throw(c1, m1, c1.lastError)

\* Bug variant: the first error caught is kept, and raised in the end.
withRetry_firstError(c, m, ok, v) ==
    IF ok THEN Return(c, m, v)
    ELSE LET m1 == rotateProvider(m)
             c1 == [c EXCEPT !.lastError = IF @ = -1 THEN c.i ELSE @,
                             !.i = @ + 1, !.failed = @ + 1]
         IN  IF c1.i < retries THEN issue(c1, m1)
             ELSE Throw(c1, m1, c1.lastError)

\* withRetry, resumed when the awaited fn() settles (ok: fulfilled with v).
withRetry(c, m, ok, v) ==
    IF ok THEN Return(c, m, v)
    ELSE LET m1 == rotateProvider(m)
             c1 == [c EXCEPT !.lastError = c.i, !.i = @ + 1, !.failed = @ + 1]
         IN  IF c1.i < retries THEN issue(c1, m1)
             ELSE Throw(c1, m1, c1.lastError)

\* Bug variant: a failure is reported as undefined, a non-resolution as null.
catchReturnNull_undefined(o) ==
    IF o.kind = "throw" THEN Return(o.call, o.m, UNDEFINED) ELSE o

\* catch { return null; }
catchReturnNull(o) == IF o.kind = "throw" THEN Return(o.call, o.m, NULL) ELSE o

\* Bug variant: no try/catch around withRetry.
resolveENSName_noCatch(c, m, ok, v) == withRetry(c, m, ok, v)

resolveENSName(c, m, ok, v) == catchReturnNull(withRetry(c, m, ok, v))

\* Bug variant: the reverse lookup is tried once, without withRetry.
lookupAddress_noRetry(c, m, ok, v) ==
    IF ok THEN Return(c, m, v) ELSE Return(c, m, NULL)

lookupAddress(c, m, ok, v) == catchReturnNull(withRetry(c, m, ok, v))

\* The body shared by getENSAvatar and getENSText inside their try block.
resolverThenField(c, m, ok, v) ==
    IF c.pc = "fn"
    THEN LET o == withRetry(c, m, ok, v)
         IN  IF o.kind # "return" THEN o
             ELSE IF ~Boolean(o.value) THEN Return(o.call, o.m, NULL)
             ELSE issueField(o.call, o.m)
    ELSE IF ok THEN Return(c, m, v) ELSE Throw(c, m, c.i)

\* Bug variant: the avatar query is issued without testing the resolver.
getENSAvatar_noResolverCheck(c, m, ok, v) ==
    catchReturnNull(
        IF c.pc = "fn"
        THEN LET o == withRetry(c, m, ok, v)
             IN  IF o.kind # "return" THEN o ELSE issueField(o.call, o.m)
        ELSE IF ok THEN Return(c, m, v) ELSE Throw(c, m, c.i))

\* Bug variant: the try block ends after withRetry, so a failing avatar
\* query is not caught.
getENSAvatar_uncaughtField(c, m, ok, v) ==
    IF c.pc = "fn" THEN catchReturnNull(resolverThenField(c, m, ok, v))
    ELSE resolverThenField(c, m, ok, v)

\* Bug variant: a failed avatar query is caught by the retry loop, which
\* rotates and starts the two steps over.
getENSAvatar_retryField(c, m, ok, v) ==
    catchReturnNull(
        IF c.pc = "field" /\ ~ok
        THEN withRetry([c EXCEPT !.pc = "fn"], m, FALSE, v)
        ELSE resolverThenField(c, m, ok, v))

getENSAvatar(c, m, ok, v) == catchReturnNull(resolverThenField(c, m, ok, v))

getENSText(c, m, ok, v) == catchReturnNull(resolverThenField(c, m, ok, v))

getTextRecordWithRetry(c, m, ok, v) ==
    IF ok
    THEN IF c.pc = "fn"
         THEN IF ~Boolean(v) THEN Return(c, m, NULL) ELSE issueField(c, m)
         ELSE Return(c, m, v)
    ELSE LET m1 == rotateProvider(m)
             c1 == [c EXCEPT !.lastError = c.i, !.i = @ + 1, !.failed = @ + 1]
         IN  IF c1.i < textRetries THEN issue(c1, m1)
             ELSE Return(c1, m1, NULL)

\* The continuation of call c when its request in flight settles.
Resume(c, m, ok, v) ==
    CASE c.op = "resolveENSName" -> resolveENSName(c, m, ok, v)
      [] c.op = "lookupAddress" -> lookupAddress(c, m, ok, v)
      [] c.op = "getENSAvatar" -> getENSAvatar(c, m, ok, v)
      [] c.op = "getENSText" -> getENSText(c, m, ok, v)
      [] c.op = "getTextRecordWithRetry" -> getTextRecordWithRetry(c, m, ok, v)

\* What the transport answers to the request of c in flight, when it succeeds.
Answer(c) ==
    IF c.pc = "fn"
    THEN CASE c.op = "resolveENSName" -> resolveName(c.arg)
           [] c.op = "lookupAddress" -> reverseLookup(c.arg)
           [] OTHER -> getResolver(c.arg)
    ELSE IF c.op = "getENSAvatar" THEN getAvatar(c.arg)
         ELSE getText(c.arg, c.key)

\* A call run alone from the outcome o of its last continuation: each request
\* it awaits settles as the next element of pattern says (TRUE: answered).
RECURSIVE runOutcome(_, _)
runOutcome(o, pattern) ==
    IF o.kind # "await" \/ pattern = <<>> THEN o
    ELSE LET ok == Head(pattern)
             v == IF ok THEN Answer(o.call) ELSE NONE
         IN  runOutcome(Resume(o.call, o.m, ok, v), Tail(pattern))

\* The operation op(arg, key) invoked alone on module state m and run to its
\* end against the pattern of transport outcomes.
RunAlone(op, arg, key, m, pattern) ==
    runOutcome(issue(NewCall(op, arg, key), m), pattern)

\* Patterns of transport outcomes long enough for one withRetry call.
Patterns == [1..retries -> BOOLEAN]

\* The lookups getAllTextRecords starts, in key order, each up to its first
\* await.
RECURSIVE dispatch(_, _, _, _)
dispatch(name, keys, m, bag) ==
    IF keys = <<>> THEN [m |-> m, bag |-> bag]
    ELSE LET o == issue(NewCall("getTextRecordWithRetry", name, Head(keys)), m)
         IN  dispatch(name, Tail(keys), o.m, bag (+) SetToBag({o.call}))

\* Bug variant: every fulfilled lookup is kept, whatever its value.
collect_keepEmpty(settled) ==
    [k \in {x \in DOMAIN settled : settled[x].status = "fulfilled"}
        |-> settled[k].value]

\* The loop of getAllTextRecords over the settled results.
collect(settled) ==
    [k \in {x \in DOMAIN settled :
                settled[x].status = "fulfilled" /\ Boolean(settled[x].value)}
        |-> settled[k].value]

\* Bug variant: an aggregate that found nothing fails instead of returning
\* the empty mapping.
getAllTextRecords_throwOnEmpty(settled) ==
    IF DOMAIN collect(settled) = {}
    THEN [kind |-> "throw", records |-> EmptyMap]
    ELSE [kind |-> "return", records |-> collect(settled)]

\* getAllTextRecords, resumed when Promise.allSettled(...) is fulfilled.
getAllTextRecords(settled) ==
    [kind |-> "return", records |-> collect(settled)]

----------------------------------------------------------------------------
(* The state machine *)

\* The getAllTextRecords call: idle, waiting for its lookups to settle, or
\* returned in the last step with the mapping it built.  answered tells
\* whether the transport has answered any request of its lookups.
IdleAll ==
    [pc |-> "idle", name |-> NONE, settled |-> EmptyMap, records |-> EmptyMap,
     threw |-> FALSE, answered |-> FALSE]

\* A returned getAllTextRecords call is forgotten by the next step.
ClearAll == IF all.pc = "returned" THEN IdleAll ELSE all

NoReturn ==
    [op |-> NONE, arg |-> NONE, key |-> NONE, result |-> NULL,
     threw |-> FALSE, sent |-> 0, failed |-> 0,
     fieldSent |-> 0, lastOk |-> FALSE, answer |-> NONE, handle |-> NULL,
     i |-> 0, lastError |-> -1, tried |-> {}]

\* The record of a call that ended with outcome o, after its last request
\* settled (ok, with answer v).
Returned(o, ok, v) ==
    [op |-> o.call.op, arg |-> o.call.arg, key |-> o.call.key,
     result |-> o.value, threw |-> (o.kind = "throw"),
     sent |-> o.call.sent, failed |-> o.call.failed,
     fieldSent |-> o.call.fieldSent, lastOk |-> ok,
     answer |-> IF ok THEN v ELSE NONE, handle |-> o.call.handle,
     i |-> o.call.i, lastError |-> o.call.lastError, tried |-> o.call.tried]

InFlight == BagCardinality(calls)

SetModule(m) ==
    /\ RPC_ENDPOINTS' = m.RPC_ENDPOINTS
    /\ provider' = m.provider
    /\ currentRpcIndex' = m.currentRpcIndex

NoResponse == [status |-> 0, error |-> NONE, initiator |-> NONE, receiver |-> NONE]

\* No response to a DELETE or GET request was sent in the last step.
NoReply ==
    [route |-> NONE, status |-> 0, body |-> <<NONE, NONE>>, a |-> NONE, b |-> NONE,
     nodes |-> {}, edges |-> {}]

\* An empty store, no request in flight.
InitStore ==
    /\ users = {}
    /\ friendships = {}
    /\ nextId = 1
    /\ posts = EmptyBag
    /\ responded = NoResponse
    /\ requests = EmptyBag
    /\ replied = NoReply

Init ==
    /\ InitStore
    /\ env \in EnvChoices
    /\ down = {}
    /\ RPC_ENDPOINTS = BuildEndpoints(env)
    /\ provider = NULL
    /\ currentRpcIndex = 0
    /\ calls = EmptyBag
    /\ all = IdleAll
    /\ returned = NoReturn
    /\ runStart = 0
    /\ runLen = 0

\* A caller invokes one of the exported operations built on withRetry; the
\* operation runs up to its first await.
Invoke(cap, op, arg, key) ==
    /\ InFlight < cap
    /\ LET o == issue(NewCall(op, arg, key), Module)
       IN  /\ SetModule(o.m)
           /\ calls' = calls (+) SetToBag({o.call})
    /\ returned' = NoReturn
    /\ all' = ClearAll
    /\ UNCHANGED <<env, down, store>>

\* A caller invokes getAllTextRecords(name): every lookup is started.
InvokeAll(cap, name) ==
    /\ all.pc # "waiting"
    /\ InFlight + NumKeys <= cap
    /\ LET d == dispatch(name, DispatchedKeys, Module, calls)
       IN  /\ SetModule(d.m)
           /\ calls' = d.bag
    /\ all' = [IdleAll EXCEPT !.pc = "waiting", !.name = name]
    /\ returned' = NoReturn
    /\ UNCHANGED <<env, down, store>>

\* Bug variant: the aggregate returns as soon as one lookup ends absent, as
\* an all-or-nothing join would on a rejection.
Join_returnOnAbsent(c, o) ==
    LET settled == all.settled @@ (c.key :>
                       [status |-> IF o.kind = "return" THEN "fulfilled"
                                   ELSE "rejected",
                        value |-> o.value])
        r == getAllTextRecords(settled)
    IN  IF DOMAIN settled # KeySet /\ Boolean(o.value)
        THEN [all EXCEPT !.settled = settled]
        ELSE [all EXCEPT !.pc = "returned", !.settled = settled,
                         !.records = r.records, !.threw = (r.kind = "throw")]

\* The getAllTextRecords call after one of its lookups ended with outcome o:
\* the result is recorded, and once every lookup has settled the call resumes
\* from its await and returns.
Join(c, o) ==
    LET settled == all.settled @@ (c.key :>
                       [status |-> IF o.kind = "return" THEN "fulfilled"
                                   ELSE "rejected",
                        value |-> o.value])
        r == getAllTextRecords(settled)
    IN  IF DOMAIN settled # KeySet
        THEN [all EXCEPT !.settled = settled]
        ELSE [all EXCEPT !.pc = "returned", !.settled = settled,
                         !.records = r.records, !.threw = (r.kind = "throw")]

\* The getAllTextRecords call a, one request of whose lookups has settled.
Heard(a, ok) == [a EXCEPT !.answered = @ \/ ok]

\* The request in flight of call c settles: fulfilled (ok) with the chain's
\* answer, or rejected.  The call runs to its next await or to its end.
Settle(c, ok) ==
    /\ c \in BagToSet(calls)
    /\ LET v == IF ok THEN Answer(c) ELSE NONE
           o == Resume(c, Module, ok, v)
       IN  /\ SetModule(o.m)
           /\ calls' = IF o.kind = "await"
                        THEN (calls (-) SetToBag({c})) (+) SetToBag({o.call})
                        ELSE calls (-) SetToBag({c})
           /\ returned' = IF o.kind = "await" THEN NoReturn
                           ELSE Returned(o, ok, v)
           /\ all' = IF c.op # "getTextRecordWithRetry" THEN ClearAll
                      ELSE Heard(IF o.kind = "await" THEN all ELSE Join(c, o), ok)
    /\ UNCHANGED <<env, down, store>>

Inputs(op) ==
    CASE op = "lookupAddress" -> Addresses \X {NONE}
      [] op = "getENSText" -> Names \X {"email"}
      [] OTHER -> Names \X {NONE}

InvokeAny(cap) ==
    \E op \in WithRetryOps : \E in \in Inputs(op) : Invoke(cap, op, in[1], in[2])

\* Any number of calls up to MaxCalls in flight, settling in any order.
Next ==
    \/ InvokeAny(MaxCalls) /\ UNCHANGED <<runStart, runLen>>
    \/ (\E name \in ProfileNames : InvokeAll(MaxCalls, name)) /\ UNCHANGED <<runStart, runLen>>
    \/ (\E c \in BagToSet(calls) : \E ok \in BOOLEAN : Settle(c, ok))
          /\ UNCHANGED <<runStart, runLen>>

\* An empty ETHEREUM_RPC_URL builds the same pool as an unset one; the
\* concurrent specification starts from the two distinct pools.
InitConc == Init /\ env # ""

Spec == InitConc /\ [][Next]_vars

\* One caller at a time: an exported operation is invoked after the previous
\* one returned.  The lookups of one getAllTextRecords call still run
\* concurrently with each other.
NextSeq ==
    \/ InvokeAny(1) /\ UNCHANGED <<runStart, runLen>>
    \/ (\E name \in ProfileNames : InvokeAll(NumKeys, name)) /\ UNCHANGED <<runStart, runLen>>
    \/ (\E c \in BagToSet(calls) : \E ok \in BOOLEAN : Settle(c, ok))
          /\ UNCHANGED <<runStart, runLen>>

SpecSeq == InitConc /\ [][NextSeq]_vars

\* The run of consecutive failed attempts: a failure caught by withRetry
\* extends it, any other settled request starts a new one.
TrackRun(c, ok) ==
    IF ~ok /\ c.pc = "fn"
    THEN /\ runLen < MaxRun
         /\ runLen' = runLen + 1
         /\ runStart' = runStart
    ELSE /\ runLen' = 0
         /\ runStart' = currentRpcIndex'

\* One call of an operation built on withRetry at a time, with the runs of
\* consecutive failures tracked.
NextRun ==
    \/ InvokeAny(1) /\ UNCHANGED <<runStart, runLen>>
    \/ \E c \in BagToSet(calls) : \E ok \in BOOLEAN : Settle(c, ok) /\ TrackRun(c, ok)

SpecRun == Init /\ [][NextRun]_vars

\* Whether a request sent on handle h reaches an available endpoint.
Up(h) == h \notin down

\* One endpoint of the pool is unavailable for good, the others answer every
\* request.
InitDown ==
    /\ InitStore
    /\ env \in EnvChoices \ {""}
    /\ RPC_ENDPOINTS = BuildEndpoints(env)
    /\ \E n \in 1..Len(RPC_ENDPOINTS) : down = {RPC_ENDPOINTS[n]}
    /\ provider = NULL
    /\ currentRpcIndex = 0
    /\ calls = EmptyBag
    /\ all = IdleAll
    /\ returned = NoReturn
    /\ runStart = 0
    /\ runLen = 0

\* Up to DownCalls concurrent calls of resolveENSName for a resolvable name;
\* a request fails exactly when its handle is bound to the unavailable
\* endpoint.
NextDown ==
    \/ Invoke(DownCalls, "resolveENSName", "alice.eth", NONE)
          /\ UNCHANGED <<runStart, runLen>>
    \/ (\E c \in BagToSet(calls) : Settle(c, Up(c.handle)))
          /\ UNCHANGED <<runStart, runLen>>

SpecDown == InitDown /\ [][NextDown]_vars

\* At least one endpoint of the pool answers every request; a request to any
\* other endpoint (those of down) fails or is answered.
InitHealthy ==
    /\ InitStore
    /\ env \in EnvChoices \ {""}
    /\ RPC_ENDPOINTS = BuildEndpoints(env)
    /\ down \in SUBSET {RPC_ENDPOINTS[n] : n \in 1..Len(RPC_ENDPOINTS)}
    /\ \E n \in 1..Len(RPC_ENDPOINTS) : Up(RPC_ENDPOINTS[n])
    /\ provider = NULL
    /\ currentRpcIndex = 0
    /\ calls = EmptyBag
    /\ all = IdleAll
    /\ returned = NoReturn
    /\ runStart = 0
    /\ runLen = 0

\* resolveENSName is called for a resolvable name again and again, one call
\* at a time, with the runs of consecutive failures tracked.
NextHealthy ==
    \/ Invoke(1, "resolveENSName", "alice.eth", NONE)
          /\ UNCHANGED <<runStart, runLen>>
    \/ \E c \in BagToSet(calls) :
          \E ok \in (IF Up(c.handle) THEN {TRUE} ELSE BOOLEAN) :
             Settle(c, ok) /\ TrackRun(c, ok)

\* Every request is eventually answered or fails, and the caller goes on
\* calling.
SpecHealthy == InitHealthy /\ [][NextHealthy]_vars /\ WF_vars(NextHealthy)

----------------------------------------------------------------------------
(* The friendship API: POST /api/friendship *)

\* The request bodies sent: pairs of names in both orders, a name that does
\* not resolve, names in upper case or padded with blanks, a pair that is
\* one name written in two ways, and bodies the handler refuses.
Bodies ==
    { <<"alice.eth", "bob.eth">>, <<"bob.eth", "alice.eth">>,
      <<"ALICE.ETH", "bob.eth">>, <<"bob.eth", " alice.eth ">>,
      <<"alice.eth", "nobody.eth">>, <<"nobody.eth", "bob.eth">>,
      <<"ALICE.ETH", " alice.eth ">>, <<"alice", "bob.eth">>,
      <<UNDEFINED, "bob.eth">>, <<"alice.eth", "">> }

\* String.prototype.trim, toLowerCase and endsWith(".eth") on those strings.
trim(s) == IF s = " alice.eth " THEN "alice.eth" ELSE s
toLowerCase(s) == IF s = "ALICE.ETH" THEN "alice.eth" ELSE s
endsWithEth(s) == s \in {"alice.eth", "bob.eth", "nobody.eth"}

\* Bug variant: names are trimmed and not lower-cased.
normalize_noLowerCase(s) == IF s = UNDEFINED THEN UNDEFINED ELSE trim(s)

\* body.initiator?.trim().toLowerCase()
normalize(s) == IF s = UNDEFINED THEN UNDEFINED ELSE toLowerCase(trim(s))

\* prisma.user.findUnique({ where: { ensName } }): the rows with that name
\* (at most one, ensName being a unique key).
findUnique(us, ensName) == {u \in us : u.ensName = ensName}

\* One call of validateAndGetOrCreateUser.  pc is the await it is suspended
\* at: "findUnique", "resolve" (resolveENSName) or "create"; or how it ended:
\* "done" (user is the id of the row it returned) or "failed" (it threw).
\* address is its local variable of that name.
NewTask(ensName) ==
    [ensName |-> ensName, pc |-> "findUnique", address |-> NULL, user |-> NULL]

TaskOutcome(t, us, id, m) == [task |-> t, users |-> us, nextId |-> id, m |-> m]

\* Bug variant: the user is created whatever resolveENSName returned.
validateAndGetOrCreateUser_noCheck(t, us, id, m, pattern) ==
    CASE t.pc = "findUnique" ->
           IF findUnique(us, t.ensName) # {}
           THEN TaskOutcome([t EXCEPT !.pc = "done",
                               !.user = (CHOOSE u \in findUnique(us, t.ensName) : TRUE).id],
                            us, id, m)
           ELSE TaskOutcome([t EXCEPT !.pc = "resolve"], us, id, m)
      [] t.pc = "resolve" ->
           LET o == RunAlone("resolveENSName", t.ensName, NONE, m, pattern)
           IN  TaskOutcome([t EXCEPT !.pc = "create", !.address = o.value],
                           us, id, o.m)
      [] t.pc = "create" ->
           IF findUnique(us, t.ensName) # {}
           THEN TaskOutcome([t EXCEPT !.pc = "failed"], us, id, m)
           ELSE TaskOutcome([t EXCEPT !.pc = "done", !.user = id],
                            us \cup {[id |-> id, ensName |-> t.ensName,
                                      address |-> t.address]},
                            id + 1, m)

\* Bug variant: prisma.user.create inserts the row although the name is
\* already stored.
validateAndGetOrCreateUser_noUnique(t, us, id, m, pattern) ==
    CASE t.pc = "findUnique" ->
           IF findUnique(us, t.ensName) # {}
           THEN TaskOutcome([t EXCEPT !.pc = "done",
                               !.user = (CHOOSE u \in findUnique(us, t.ensName) : TRUE).id],
                            us, id, m)
           ELSE TaskOutcome([t EXCEPT !.pc = "resolve"], us, id, m)
      [] t.pc = "resolve" ->
           LET o == RunAlone("resolveENSName", t.ensName, NONE, m, pattern)
           IN  IF ~Boolean(o.value)
               THEN TaskOutcome([t EXCEPT !.pc = "failed"], us, id, o.m)
               ELSE TaskOutcome([t EXCEPT !.pc = "create", !.address = o.value],
                                us, id, o.m)
      [] t.pc = "create" ->
           TaskOutcome([t EXCEPT !.pc = "done", !.user = id],
                       us \cup {[id |-> id, ensName |-> t.ensName,
                                 address |-> t.address]},
                       id + 1, m)

\* validateAndGetOrCreateUser, resumed from the await t.pc: the store holds
\* the users us, the next row id is id, the resolver module is in state m,
\* and the transport treats the requests of resolveENSName as pattern says.
validateAndGetOrCreateUser(t, us, id, m, pattern) ==
    CASE t.pc = "findUnique" ->
           IF findUnique(us, t.ensName) # {}
           THEN TaskOutcome([t EXCEPT !.pc = "done",
                               !.user = (CHOOSE u \in findUnique(us, t.ensName) : TRUE).id],
                            us, id, m)
           ELSE TaskOutcome([t EXCEPT !.pc = "resolve"], us, id, m)
      [] t.pc = "resolve" ->
           LET o == RunAlone("resolveENSName", t.ensName, NONE, m, pattern)
           IN  IF ~Boolean(o.value)
               THEN TaskOutcome([t EXCEPT !.pc = "failed"], us, id, o.m)
               ELSE TaskOutcome([t EXCEPT !.pc = "create", !.address = o.value],
                                us, id, o.m)
      [] t.pc = "create" ->
           \* prisma.user.create: rejected when the unique name is taken
           IF findUnique(us, t.ensName) # {}
           THEN TaskOutcome([t EXCEPT !.pc = "failed"], us, id, m)
           ELSE TaskOutcome([t EXCEPT !.pc = "done", !.user = id],
                            us \cup {[id |-> id, ensName |-> t.ensName,
                                      address |-> t.address]},
                            id + 1, m)

Pending(t) == t.pc \in {"findUnique", "resolve", "create"}

\* A POST request past its checks of the body.  pc: "validating" (awaiting
\* Promise.all of the two validateAndGetOrCreateUser calls), "rejected"
\* (answered 400 while one of the two calls is still running), "findFirst",
\* "create" (prisma.friendship.create).
NewPost(initiator, receiver) ==
    [initiator |-> initiator, receiver |-> receiver, pc |-> "validating",
     tasks |-> <<NewTask(initiator), NewTask(receiver)>>]

Response(status, error, q) ==
    [status |-> status, error |-> error, initiator |-> q.initiator,
     receiver |-> q.receiver]

\* Bug variant: only a friendship in the direction of the request is found.
findFirst_oneWay(fs, a, b) ==
    {f \in fs : f.initiatorId = a /\ f.receiverId = b}

\* prisma.friendship.findFirst for the pair of users a, b in either direction.
findFirst(fs, a, b) ==
    {f \in fs : \/ f.initiatorId = a /\ f.receiverId = b
                \/ f.initiatorId = b /\ f.receiverId = a}

\* Bug variant: a request naming one user twice is not refused.
PostInvoke_noSelfCheck(bi, br) ==
    LET initiator == normalize(bi)
        receiver == normalize(br)
        q == [initiator |-> initiator, receiver |-> receiver]
    IN  /\ BagCardinality(posts) < MaxPosts
        /\ IF ~Boolean(initiator) \/ ~Boolean(receiver)
           THEN /\ responded' = Response(400, "names required", q)
                /\ posts' = posts
           ELSE IF ~endsWithEth(initiator) \/ ~endsWithEth(receiver)
           THEN /\ responded' = Response(400, "not .eth", q)
                /\ posts' = posts
           ELSE /\ responded' = NoResponse
                /\ posts' = posts (+) SetToBag({NewPost(initiator, receiver)})
        /\ UNCHANGED <<users, friendships, nextId>>

\* A POST request arrives with body { initiator: bi, receiver: br }: the
\* handler runs up to its first answer or to the await of Promise.all.
PostInvoke(bi, br) ==
    LET initiator == normalize(bi)
        receiver == normalize(br)
        q == [initiator |-> initiator, receiver |-> receiver]
    IN  /\ BagCardinality(posts) < MaxPosts
        /\ IF ~Boolean(initiator) \/ ~Boolean(receiver)
           THEN /\ responded' = Response(400, "names required", q)
                /\ posts' = posts
           ELSE IF ~endsWithEth(initiator) \/ ~endsWithEth(receiver)
           THEN /\ responded' = Response(400, "not .eth", q)
                /\ posts' = posts
           ELSE IF initiator = receiver
           THEN /\ responded' = Response(400, "self", q)
                /\ posts' = posts
           ELSE /\ responded' = NoResponse
                /\ posts' = posts (+) SetToBag({NewPost(initiator, receiver)})
        /\ UNCHANGED <<users, friendships, nextId>>

\* The request q after the k-th of its validateAndGetOrCreateUser calls ran
\* its continuation with outcome task t: Promise.all rejects at the first
\* call that throws, and is fulfilled when both have returned.
AfterTask(q, k, t) ==
    LET q1 == [q EXCEPT !.tasks[k] = t]
    IN  IF q.pc = "validating" /\ t.pc = "failed"
        THEN [q1 EXCEPT !.pc = "rejected"]
        ELSE IF q.pc = "validating" /\ t.pc = "done" /\ q.tasks[3 - k].pc = "done"
        THEN [q1 EXCEPT !.pc = "findFirst"]
        ELSE q1

\* The awaited step of the k-th validateAndGetOrCreateUser call of request q
\* completes and the call runs on; a rejected request is gone once neither
\* of its calls is running.
TaskSettles(q, k, pattern) ==
    /\ q \in BagToSet(posts)
    /\ Pending(q.tasks[k])
    /\ LET o == validateAndGetOrCreateUser(q.tasks[k], users, nextId, Module, pattern)
           q2 == AfterTask(q, k, o.task)
           gone == q2.pc = "rejected" /\ ~Pending(q2.tasks[1]) /\ ~Pending(q2.tasks[2])
       IN  /\ users' = o.users
           /\ nextId' = o.nextId
           /\ SetModule(o.m)
           /\ posts' = IF gone THEN posts (-) SetToBag({q})
                       ELSE (posts (-) SetToBag({q})) (+) SetToBag({q2})
           /\ responded' = IF q.pc = "validating" /\ q2.pc = "rejected"
                            THEN Response(400, "invalid name", q)
                            ELSE NoResponse
    /\ UNCHANGED <<env, down, calls, all, returned, friendships>>

\* prisma.friendship.findFirst of request q completes.
FindFirst(q) ==
    /\ q \in BagToSet(posts)
    /\ q.pc = "findFirst"
    /\ IF findFirst(friendships, q.tasks[1].user, q.tasks[2].user) # {}
       THEN /\ responded' = Response(409, "exists", q)
            /\ posts' = posts (-) SetToBag({q})
       ELSE /\ responded' = NoResponse
            /\ posts' = (posts (-) SetToBag({q})) (+) SetToBag({[q EXCEPT !.pc = "create"]})
    /\ UNCHANGED <<users, friendships, nextId>>

\* prisma.friendship.create of request q completes: rejected when one of the
\* two users is no longer stored.
CreateFriendship(q) ==
    /\ q \in BagToSet(posts)
    /\ q.pc = "create"
    /\ posts' = posts (-) SetToBag({q})
    /\ IF {q.tasks[1].user, q.tasks[2].user} \subseteq {u.id : u \in users}
       THEN /\ friendships' = friendships \cup
                   {[id |-> nextId, initiatorId |-> q.tasks[1].user,
                     receiverId |-> q.tasks[2].user]}
            /\ nextId' = nextId + 1
            /\ responded' = Response(200, NONE, q)
       ELSE /\ responded' = Response(500, "failed", q)
            /\ UNCHANGED <<friendships, nextId>>
    /\ UNCHANGED users

\* The patterns of transport outcomes one resolveENSName call can meet: it
\* ends at the first request that is answered.
Runs ==
    { <<TRUE>>, <<FALSE, TRUE>>, <<FALSE, FALSE, TRUE>>, <<FALSE, FALSE, FALSE>> }

resolverVars == <<env, down, RPC_ENDPOINTS, provider, currentRpcIndex, calls, all, returned>>

\* The DELETE and GET requests, of which SpecApi has none.
others == <<requests, replied>>

\* Up to MaxPosts POST requests in flight; their awaited steps complete in
\* any order.
NextApi ==
    \/ (\E body \in Bodies : PostInvoke(body[1], body[2]))
          /\ UNCHANGED <<resolverVars, runStart, runLen, others>>
    \/ (\E q \in BagToSet(posts) : \E k \in 1..2 :
          \E pattern \in (IF q.tasks[k].pc = "resolve" THEN Runs ELSE {<<>>}) :
             TaskSettles(q, k, pattern))
          /\ UNCHANGED <<runStart, runLen, others>>
    \/ (\E q \in BagToSet(posts) : FindFirst(q))
          /\ UNCHANGED <<resolverVars, runStart, runLen, others>>
    \/ (\E q \in BagToSet(posts) : CreateFriendship(q))
          /\ UNCHANGED <<resolverVars, runStart, runLen, others>>

\* The API starts on an empty store, with the pool of the four fallback
\* endpoints.
InitApi == Init /\ env = UNDEFINED

SpecApi == InitApi /\ [][NextApi]_vars

----------------------------------------------------------------------------
(* DELETE /api/friendship, DELETE /api/user and GET /api/graph *)

\* In place of a row id: a query of Promise.all that has not been answered,
\* and a query answered with null (row ids start at 1).
PENDING == -1
NOROW == 0

DELETE_FRIENDSHIP == "DELETE /api/friendship"
DELETE_USER == "DELETE /api/user"
GET_GRAPH == "GET /api/graph"

\* A DELETE or GET request in flight.  body is the pair of names as sent,
\* a and b the names the handler looks up; pc is the query it awaits; ua, ub
\* are the ids of the users found (PENDING, NOROW when none), f the id of the
\* friendship found, nodes the nodes built from the users read.
NewRequest(route, body, a, b, pc) ==
    [route |-> route, body |-> body, a |-> a, b |-> b, pc |-> pc,
     ua |-> PENDING, ub |-> PENDING, f |-> NOROW, nodes |-> {}]

Reply(r, status) ==
    [route |-> r.route, status |-> status, body |-> r.body, a |-> r.a, b |-> r.b,
     nodes |-> {}, edges |-> {}]

\* The request r moves on as r2, or is answered and gone.
MovesOn(r, r2) ==
    /\ requests' = (requests (-) SetToBag({r})) (+) SetToBag({r2})
    /\ replied' = NoReply

Replies(r, status) ==
    /\ requests' = requests (-) SetToBag({r})
    /\ replied' = Reply(r, status)

\* The id of the user findUnique returns for ensName, NOROW when none.
foundId(us, ensName) ==
    IF findUnique(us, ensName) = {} THEN NOROW
    ELSE (CHOOSE u \in findUnique(us, ensName) : TRUE).id

\* DELETE /api/friendship arrives with body { initiator: bi, receiver: br }.
DeleteFriendshipInvoke(bi, br) ==
    LET initiator == normalize(bi)
        receiver == normalize(br)
        r == NewRequest(DELETE_FRIENDSHIP, <<bi, br>>, initiator, receiver, "findUnique")
    IN  /\ IF ~Boolean(initiator) \/ ~Boolean(receiver)
           THEN /\ replied' = Reply(r, 400)
                /\ requests' = requests
           ELSE /\ replied' = NoReply
                /\ requests' = requests (+) SetToBag({r})
        /\ UNCHANGED <<users, friendships, nextId>>

\* One of the two prisma.user.findUnique queries of request r is answered
\* (k = 1: the initiator, k = 2: the receiver); with the second answer
\* Promise.all is fulfilled and the handler runs on.
DeleteFriendshipFindUnique(r, k) ==
    /\ r \in BagToSet(requests)
    /\ r.route = DELETE_FRIENDSHIP
    /\ r.pc = "findUnique"
    /\ (IF k = 1 THEN r.ua ELSE r.ub) = PENDING
    /\ LET r2 == IF k = 1 THEN [r EXCEPT !.ua = foundId(users, r.a)]
                 ELSE [r EXCEPT !.ub = foundId(users, r.b)]
       IN  IF PENDING \in {r2.ua, r2.ub}
           THEN MovesOn(r, r2)
           ELSE IF NOROW \in {r2.ua, r2.ub}
           THEN Replies(r, 404)
           ELSE MovesOn(r, [r2 EXCEPT !.pc = "findFirst"])
    /\ UNCHANGED <<users, friendships, nextId>>

\* prisma.friendship.findFirst of request r is answered: with one of the
\* friendships of the pair, if there is any.
DeleteFriendshipFindFirst(r) ==
    /\ r \in BagToSet(requests)
    /\ r.route = DELETE_FRIENDSHIP
    /\ r.pc = "findFirst"
    /\ IF findFirst(friendships, r.ua, r.ub) = {}
       THEN Replies(r, 404)
       ELSE \E f \in findFirst(friendships, r.ua, r.ub) :
               MovesOn(r, [r EXCEPT !.pc = "delete", !.f = f.id])
    /\ UNCHANGED <<users, friendships, nextId>>

\* prisma.friendship.delete of request r is answered: it throws when the row
\* is no longer stored.
DeleteFriendshipDelete(r) ==
    /\ r \in BagToSet(requests)
    /\ r.route = DELETE_FRIENDSHIP
    /\ r.pc = "delete"
    /\ IF \E f \in friendships : f.id = r.f
       THEN /\ friendships' = {f \in friendships : f.id # r.f}
            /\ Replies(r, 200)
       ELSE /\ friendships' = friendships
            /\ Replies(r, 500)
    /\ UNCHANGED <<users, nextId>>

\* DELETE /api/user arrives with body { ensName: b }.
DeleteUserInvoke(b) ==
    LET ensName == normalize(b)
        r == NewRequest(DELETE_USER, <<b, NONE>>, ensName, NONE, "findUnique")
    IN  /\ IF ~Boolean(ensName)
           THEN /\ replied' = Reply(r, 400)
                /\ requests' = requests
           ELSE /\ replied' = NoReply
                /\ requests' = requests (+) SetToBag({r})
        /\ UNCHANGED <<users, friendships, nextId>>

\* prisma.user.findUnique of request r is answered.
DeleteUserFindUnique(r) ==
    /\ r \in BagToSet(requests)
    /\ r.route = DELETE_USER
    /\ r.pc = "findUnique"
    /\ IF foundId(users, r.a) = NOROW
       THEN Replies(r, 404)
       ELSE MovesOn(r, [r EXCEPT !.pc = "delete", !.ua = foundId(users, r.a)])
    /\ UNCHANGED <<users, friendships, nextId>>

\* Bug variant: the friendships of a deleted user stay.
cascade_none(fs, id) == fs

\* onDelete: Cascade: the friendships left when the user id is deleted.
cascade(fs, id) == {f \in fs : f.initiatorId # id /\ f.receiverId # id}

\* prisma.user.delete of request r is answered: it throws when the row is no
\* longer stored.
DeleteUserDelete(r) ==
    /\ r \in BagToSet(requests)
    /\ r.route = DELETE_USER
    /\ r.pc = "delete"
    /\ IF \E u \in users : u.id = r.ua
       THEN /\ users' = {u \in users : u.id # r.ua}
            /\ friendships' = cascade(friendships, r.ua)
            /\ Replies(r, 200)
       ELSE /\ UNCHANGED <<users, friendships>>
            /\ Replies(r, 500)
    /\ UNCHANGED nextId

\* GET /api/graph arrives.
GraphInvoke ==
    /\ requests' = requests (+)
          SetToBag({NewRequest(GET_GRAPH, <<NONE, NONE>>, NONE, NONE, "users")})
    /\ replied' = NoReply
    /\ UNCHANGED <<users, friendships, nextId>>

\* users.map(...): id: user.ensName || user.id, label: user.ensName || "Unknown"
Node(u) ==
    [id |-> IF Boolean(u.ensName) THEN u.ensName ELSE u.id,
     label |-> IF Boolean(u.ensName) THEN u.ensName ELSE "Unknown"]

\* The ensName selected through the relation of a friendship to its user id.
ensNameOf(us, id) == (CHOOSE u \in us : u.id = id).ensName

\* friendships.map(...): from and to are the names of the two users.
Edge(f, us) ==
    [id |-> f.id, from |-> ensNameOf(us, f.initiatorId),
     to |-> ensNameOf(us, f.receiverId)]

\* prisma.user.findMany of request r is answered.
GraphFindUsers(r) ==
    /\ r \in BagToSet(requests)
    /\ r.route = GET_GRAPH
    /\ r.pc = "users"
    /\ MovesOn(r, [r EXCEPT !.pc = "friendships", !.nodes = {Node(u) : u \in users}])
    /\ UNCHANGED <<users, friendships, nextId>>

\* prisma.friendship.findMany of request r is answered, and the handler
\* responds with the nodes and edges.
GraphFindFriendships(r) ==
    /\ r \in BagToSet(requests)
    /\ r.route = GET_GRAPH
    /\ r.pc = "friendships"
    /\ requests' = requests (-) SetToBag({r})
    /\ replied' = [Reply(r, 200) EXCEPT !.nodes = r.nodes,
                                         !.edges = {Edge(f, users) : f \in friendships}]
    /\ UNCHANGED <<users, friendships, nextId>>

\* Bodies of the POST requests of SpecStore.
StoreBodies ==
    { <<"alice.eth", "bob.eth">>, <<"bob.eth", "alice.eth">>, <<"ALICE.ETH", "bob.eth">> }

\* Bodies of its DELETE /api/friendship and DELETE /api/user requests.
DeleteBodies ==
    { <<"alice.eth", "bob.eth">>, <<"bob.eth", " alice.eth ">>,
      <<"alice.eth", "nobody.eth">>, <<UNDEFINED, "bob.eth">> }

DeleteNames == {"alice.eth", "ALICE.ETH", "nobody.eth", UNDEFINED}

\* Requests of all kinds in flight.
InFlightRequests == BagCardinality(posts) + BagCardinality(requests)

\* A request arrives.
Arrives ==
    \/ (\E body \in StoreBodies : nextId <= MaxId /\ PostInvoke(body[1], body[2]))
          /\ replied' = NoReply
          /\ UNCHANGED requests
    \/ (\E body \in DeleteBodies : DeleteFriendshipInvoke(body[1], body[2]))
          /\ responded' = NoResponse
          /\ UNCHANGED posts
    \/ (\E b \in DeleteNames : DeleteUserInvoke(b))
          /\ responded' = NoResponse
          /\ UNCHANGED posts
    \/ GraphInvoke
          /\ responded' = NoResponse
          /\ UNCHANGED posts

\* Up to MaxInFlight requests of the four kinds in flight, their queries
\* answered in any order; the transport answers every request of
\* resolveENSName.
NextStore ==
    \/ InFlightRequests < MaxInFlight /\ Arrives
          /\ UNCHANGED <<resolverVars, runStart, runLen>>
    \/ (\E q \in BagToSet(posts) : \E k \in 1..2 :
          \E pattern \in (IF q.tasks[k].pc = "resolve" THEN {<<TRUE>>} ELSE {<<>>}) :
             TaskSettles(q, k, pattern))
          /\ replied' = NoReply
          /\ UNCHANGED <<runStart, runLen, requests>>
    \/ (\E q \in BagToSet(posts) : FindFirst(q))
          /\ replied' = NoReply
          /\ UNCHANGED <<resolverVars, runStart, runLen, requests>>
    \/ (\E q \in BagToSet(posts) : CreateFriendship(q))
          /\ replied' = NoReply
          /\ UNCHANGED <<resolverVars, runStart, runLen, requests>>
    \/ (\E r \in BagToSet(requests) : \E k \in 1..2 : DeleteFriendshipFindUnique(r, k))
          /\ responded' = NoResponse
          /\ UNCHANGED <<resolverVars, runStart, runLen, posts>>
    \/ (\E r \in BagToSet(requests) : DeleteFriendshipFindFirst(r))
          /\ responded' = NoResponse
          /\ UNCHANGED <<resolverVars, runStart, runLen, posts>>
    \/ (\E r \in BagToSet(requests) : DeleteFriendshipDelete(r))
          /\ responded' = NoResponse
          /\ UNCHANGED <<resolverVars, runStart, runLen, posts>>
    \/ (\E r \in BagToSet(requests) : DeleteUserFindUnique(r))
          /\ responded' = NoResponse
          /\ UNCHANGED <<resolverVars, runStart, runLen, posts>>
    \/ (\E r \in BagToSet(requests) : DeleteUserDelete(r))
          /\ responded' = NoResponse
          /\ UNCHANGED <<resolverVars, runStart, runLen, posts>>
    \/ (\E r \in BagToSet(requests) : GraphFindUsers(r))
          /\ responded' = NoResponse
          /\ UNCHANGED <<resolverVars, runStart, runLen, posts>>
    \/ (\E r \in BagToSet(requests) : GraphFindFriendships(r))
          /\ responded' = NoResponse
          /\ UNCHANGED <<resolverVars, runStart, runLen, posts>>

SpecStore == InitApi /\ [][NextStore]_vars

----------------------------------------------------------------------------
(* Properties *)

\* C1: resolveENSName never throws; it returns the value its one successful
\* attempt produced (it makes no attempt after a success), and absent when
\* its last attempt failed, which is when all of them failed.
C1_ResolveNeverThrows ==
    returned.op = "resolveENSName" =>
        /\ ~returned.threw
        /\ returned.lastOk =>
              /\ returned.result = returned.answer
              /\ returned.result = resolveName(returned.arg)
              /\ returned.sent = returned.failed + 1
        /\ ~returned.lastOk =>
              /\ returned.result = NULL
              /\ returned.sent = returned.failed

\* C1 witness: a resolveENSName call returned the address its third attempt
\* produced, after two failed attempts.
C1_Witness ==
    /\ returned.op = "resolveENSName"
    /\ returned.failed = 2
    /\ returned.lastOk
    /\ returned.result = "0xA11CE"

\* C2: a resolveENSName call all of whose transport calls failed issued
\* exactly 3 attempts and returned absent; and no call in flight has issued
\* more than 3.
C2_ExactlyThreeAttempts ==
    /\ (returned.op = "resolveENSName" /\ ~returned.lastOk) =>
          /\ returned.sent = 3
          /\ returned.failed = 3
          /\ returned.result = NULL
          /\ ~returned.threw
    /\ \A c \in BagToSet(calls) :
          c.op = "resolveENSName" => c.sent <= 3 /\ c.sent = c.failed + 1

\* C2 witness: a resolveENSName call returned absent after three failures.
C2_Witness ==
    /\ returned.op = "resolveENSName"
    /\ returned.failed = 3
    /\ returned.sent = 3
    /\ returned.result = NULL

\* A request of c whose failure is caught by a retry loop: the retried step
\* of withRetry, or either step of getTextRecordWithRetry.
InRetryLoop(c) == c.pc = "fn" \/ c.op = "getTextRecordWithRetry"

\* C3: a step in which a retry loop catches a failed attempt advances the
\* cursor by one modulo the pool size and replaces the handle by a new one
\* bound to the endpoint at the new cursor; if the call has attempts left,
\* its next attempt is in flight on that new handle after the same step.
C3_RotateBeforeRetry ==
    [][\A c \in BagToSet(calls) :
          (InRetryLoop(c) /\ Settle(c, FALSE)) =>
             /\ currentRpcIndex' = (currentRpcIndex + 1) % Len(RPC_ENDPOINTS)
             /\ provider' = RPC_ENDPOINTS[currentRpcIndex' + 1]
             /\ provider' # provider
             /\ c.failed + 1 < 3 =>
                   \E d \in BagToSet(calls') :
                      /\ d.op = c.op /\ d.arg = c.arg /\ d.key = c.key
                      /\ d.failed = c.failed + 1
                      /\ d.sent = c.sent + 1
                      /\ d.pc = "fn"
                      /\ d.handle = provider'
             /\ c.failed + 1 >= 3 =>
                   BagCardinality(calls') = BagCardinality(calls) - 1]_vars

\* C3 witness: a withRetry call and a per-key lookup are both on their second
\* attempt, the later of the two retries being in flight on the current handle.
C3_Witness ==
    /\ \E c \in BagToSet(calls) :
          c.op \in WithRetryOps /\ c.failed = 1 /\ c.sent = 2
    /\ \E c \in BagToSet(calls) :
          /\ c.op = "getTextRecordWithRetry" /\ c.failed = 1 /\ c.sent = 2
          /\ c.handle = provider
    /\ currentRpcIndex = 2

\* C4: after k consecutive failed attempts from cursor s the cursor is
\* (s + k) mod N; it is back at s after exactly N failures and not before.
C4_CursorAfterKFailures ==
    LET N == Len(RPC_ENDPOINTS)
    IN  /\ currentRpcIndex = (runStart + runLen) % N
        /\ runLen = N => currentRpcIndex = runStart
        /\ (0 < runLen /\ runLen < N) => currentRpcIndex # runStart

\* C4 witness: a run of exactly N failures that started at a cursor other
\* than 0 has brought the cursor back to where it started.
C4_Witness ==
    /\ runLen = Len(RPC_ENDPOINTS)
    /\ runStart # 0
    /\ currentRpcIndex = runStart

\* C5: the cursor is always a valid index of the pool.
C5_CursorInRange ==
    /\ currentRpcIndex \in Int
    /\ 0 <= currentRpcIndex
    /\ currentRpcIndex < Len(RPC_ENDPOINTS)

\* C5 witness: with another call still in flight, a call has returned after
\* three failures and the cursor has wrapped around to 0.
C5_Witness ==
    /\ returned.failed = 3
    /\ InFlight >= 1
    /\ currentRpcIndex = 0

\* What a step may do to the cursor and the handle.
HandleFollowsCursor ==
    /\ currentRpcIndex' # currentRpcIndex =>
          /\ provider' # provider
          /\ provider' = RPC_ENDPOINTS'[currentRpcIndex' + 1]
    /\ (currentRpcIndex' = currentRpcIndex /\ provider' # provider) =>
          /\ provider = NULL
          /\ provider' = RPC_ENDPOINTS[currentRpcIndex + 1]

\* C6: the handle is unset or bound to the endpoint at the cursor; a step
\* that changes the cursor replaces the handle; a step that sets the handle
\* without changing the cursor does so only when there was none.
C6_HandleBoundToCursor ==
    /\ [](provider = NULL \/ provider = RPC_ENDPOINTS[currentRpcIndex + 1])
    /\ [][HandleFollowsCursor]_vars

\* C6 witness: after a rotation the handle is bound to the endpoint at the
\* new, non-zero cursor.
C6_Witness ==
    /\ currentRpcIndex = 3
    /\ provider = RPC_ENDPOINTS[4]
    /\ InFlight >= 1

\* C7: without a primary (unset or empty) the pool is the four fallbacks in
\* order; with a primary it is the primary followed by the four fallbacks.
C7_PoolConstruction ==
    LET four == << "https://eth.drpc.org", "https://rpc.ankr.com/eth",
                   "https://ethereum.publicnode.com", "https://eth.llamarpc.com" >>
    IN  IF env = UNDEFINED \/ env = ""
        THEN RPC_ENDPOINTS = four
        ELSE RPC_ENDPOINTS = <<env>> \o four

\* C7 witness: with a primary configured, a first request went out on a
\* handle bound to the primary, the first of five endpoints.
C7_Witness ==
    /\ env = "https://mainnet.example/rpc"
    /\ Len(RPC_ENDPOINTS) = 5
    /\ provider = env
    /\ InFlight = 1

\* C8: the pool is never empty and no step changes it.
C8_PoolFixed ==
    /\ [](Len(RPC_ENDPOINTS) >= 1)
    /\ [][RPC_ENDPOINTS' = RPC_ENDPOINTS]_vars

\* C8 witness: a call succeeded after rotations, another is in flight, and
\* the pool is the one built at load.
C8_Witness ==
    /\ returned.op # NONE /\ returned.lastOk /\ returned.failed = 2
    /\ InFlight >= 1
    /\ currentRpcIndex # 0
    /\ RPC_ENDPOINTS = BuildEndpoints(env)

\* C9: getENSAvatar for a name without a resolver never issues an avatar
\* query, and returns absent when its resolver lookup succeeds.
C9_NoAvatarQueryWithoutResolver ==
    /\ \A c \in BagToSet(calls) :
          (c.op = "getENSAvatar" /\ getResolver(c.arg) = NULL) =>
              c.fieldSent = 0 /\ c.pc = "fn"
    /\ (returned.op = "getENSAvatar" /\ getResolver(returned.arg) = NULL) =>
          /\ returned.fieldSent = 0
          /\ returned.lastOk => (returned.result = NULL /\ ~returned.threw)

\* C9 witness: getENSAvatar("nobody.eth") returned absent after its resolver
\* lookup failed once and then answered that there is no resolver.
C9_Witness ==
    /\ returned.op = "getENSAvatar"
    /\ returned.arg = "nobody.eth"
    /\ returned.lastOk /\ returned.answer = NULL
    /\ returned.failed = 1
    /\ returned.result = NULL

\* C10: no operation ends by throwing; a call whose last request failed
\* returns absent; no lookup of getAllTextRecords rejects, and a key whose
\* lookup gave absent is not in the returned mapping.
C10_NoErrorEscapes ==
    /\ returned.op # NONE => ~returned.threw
    /\ (returned.op # NONE /\ ~returned.lastOk) => returned.result = NULL
    /\ all.pc = "returned" =>
          /\ ~all.threw
          /\ \A k \in KeySet :
                /\ all.settled[k].status = "fulfilled"
                /\ all.settled[k].value = NULL => k \notin DOMAIN all.records

\* C10 witness: getENSAvatar returned absent after its avatar query, the
\* second step, failed.
C10_Witness ==
    /\ returned.op = "getENSAvatar"
    /\ returned.fieldSent = 1
    /\ ~returned.lastOk
    /\ returned.result = NULL
    /\ ~returned.threw

\* C11: a text-record call, getENSText as well as getTextRecordWithRetry,
\* returns absent only when the chain answered that there is no resolver or
\* no value, or when 3 attempts of the call have failed, each caught by the
\* retry loop and followed by a rotation; in particular a call that ended on
\* a failed request, resolver lookup or text query, had 3 failed attempts.
C11_TextRetriesWholeSequence ==
    returned.op \in {"getENSText", "getTextRecordWithRetry"} =>
        /\ returned.result = NULL =>
              \/ returned.lastOk /\ returned.answer = NULL
              \/ returned.failed = 3
        /\ ~returned.lastOk => returned.failed = 3

\* C12: the mapping getAllTextRecords returns has as keys exactly the
\* dispatched keys whose lookup produced a non-empty value, each mapped to
\* that value, which is the value the chain holds for the key; a key whose
\* lookup gave absent or the empty string is not in it.  The lookups settle
\* in any order.
C12_ExactlyNonEmptyKeys ==
    all.pc = "returned" =>
        /\ DOMAIN all.settled = KeySet
        /\ DOMAIN all.records \subseteq KeySet
        /\ \A k \in KeySet :
              /\ k \in DOMAIN all.records <=>
                    all.settled[k].value \notin {NULL, UNDEFINED, ""}
              /\ k \in DOMAIN all.records =>
                    /\ all.records[k] = all.settled[k].value
                    /\ all.records[k] = getText(all.name, k)
              /\ all.settled[k].value \in {NULL, getText(all.name, k)}

\* C12 witness: getAllTextRecords("alice.eth") returned exactly the email
\* entry; the url lookup gave the empty string and settled first, the email
\* lookup, dispatched first, settled last.
C12_Witness ==
    /\ all.pc = "returned"
    /\ all.name = "alice.eth"
    /\ DOMAIN all.records = {"email"}
    /\ all.records["email"] = "alice@example.org"
    /\ all.settled["url"].value = ""
    /\ returned.key = "email"

\* No key of the getAllTextRecords call a resolves: its name has no resolver,
\* or no value for any dispatched key, or every request of its lookups
\* failed.
NoKeyResolves(a) ==
    \/ getResolver(a.name) = NULL
    \/ \A k \in KeySet : ~Boolean(getText(a.name, k))
    \/ ~a.answered

\* C13: getAllTextRecords never throws and always returns a mapping over the
\* dispatched keys; for a name for which no key resolves that mapping is
\* empty.
C13_EmptyMappingWhenNothingResolves ==
    all.pc = "returned" =>
        /\ ~all.threw
        /\ DOMAIN all.records \subseteq KeySet
        /\ NoKeyResolves(all) => DOMAIN all.records = {}

\* C13 witness: getAllTextRecords("alice.eth") returned the empty mapping
\* after every request of every lookup failed.
C13_Witness ==
    /\ all.pc = "returned"
    /\ all.name = "alice.eth"
    /\ ~all.answered
    /\ \A k \in KeySet : all.settled[k].status = "fulfilled"
    /\ DOMAIN all.records = {}
    /\ ~all.threw

\* The per-key lookups in flight.
Lookups == {c \in BagToSet(calls) : c.op = "getTextRecordWithRetry"}

\* C14: while getAllTextRecords waits, every dispatched key has either
\* settled or exactly one lookup in flight for the call's name, and some key
\* has not settled; when it returns, every key has settled, no lookup is in
\* flight, and every key whose lookup gave a value is in the mapping, whatever
\* the other lookups ended with.
C14_ReturnsAfterAllSettled ==
    /\ all.pc = "waiting" =>
          /\ DOMAIN all.settled # KeySet
          /\ \A k \in KeySet :
                (k \in DOMAIN all.settled) #
                    (\E c \in Lookups : c.key = k /\ c.arg = all.name)
          /\ \A c \in Lookups :
                /\ CopiesIn(c, calls) = 1
                /\ c.key \in KeySet
                /\ \A d \in Lookups : d.key = c.key => d = c
    /\ all.pc = "returned" =>
          /\ DOMAIN all.settled = KeySet
          /\ Lookups = {}
          /\ \A k \in KeySet :
                Boolean(all.settled[k].value) =>
                    /\ k \in DOMAIN all.records
                    /\ all.records[k] = all.settled[k].value
    /\ all.pc = "idle" => Lookups = {}

\* C14 witness: the url lookup of getAllTextRecords("alice.eth") exhausted
\* its attempts and settled absent first; the aggregate returned only when
\* the email lookup settled, with the email entry in the mapping.
C14_Witness ==
    /\ all.pc = "returned"
    /\ all.name = "alice.eth"
    /\ all.settled["url"].value = NULL
    /\ returned.key = "email"
    /\ returned.result = "alice@example.org"
    /\ "email" \in DOMAIN all.records

\* A name and an address that the chain treats alike: both resolve, or
\* neither does.
AlikeInputs == {<<"alice.eth", "0xA11CE">>, <<"nobody.eth", "0xDEAD">>}

\* The pattern of transport outcomes the returned call met: its failures,
\* then the answer if its last request was answered.
PatternMet ==
    [n \in 1..returned.sent |-> n > returned.failed]

\* The module state the returned call started from, when no other call ran
\* meanwhile: the cursor was returned.failed positions back.
StartOfReturned ==
    [Module EXCEPT !.currentRpcIndex =
        (currentRpcIndex + Len(RPC_ENDPOINTS) - returned.failed)
            % Len(RPC_ENDPOINTS)]

\* C15: from every module state reached with no call in flight, and against
\* every pattern of transport successes and failures, resolveENSName and
\* lookupAddress on inputs the chain treats alike make the same number of
\* attempts, meet the same number of failures, leave the cursor and the
\* handle in the same state, and return absent in the same cases; and every
\* lookupAddress call that returned did what resolveENSName does from the
\* same start against the same pattern.
C15_LookupMirrorsResolve ==
    /\ InFlight = 0 =>
          \A p \in Patterns : \A in \in AlikeInputs :
              LET a == RunAlone("resolveENSName", in[1], NONE, Module, p)
                  b == RunAlone("lookupAddress", in[2], NONE, Module, p)
              IN  /\ a.kind = "return" /\ b.kind = "return"
                  /\ a.call.sent = b.call.sent
                  /\ a.call.failed = b.call.failed
                  /\ a.call.handle = b.call.handle
                  /\ a.m = b.m
                  /\ (a.value = NULL) <=> (b.value = NULL)
    /\ returned.op = "lookupAddress" =>
          \A in \in AlikeInputs :
              in[2] = returned.arg =>
                  LET a == RunAlone("resolveENSName", in[1], NONE,
                                    StartOfReturned, PatternMet)
                  IN  /\ a.kind = "return"
                      /\ a.call.sent = returned.sent
                      /\ a.call.failed = returned.failed
                      /\ a.call.handle = returned.handle
                      /\ a.m = Module
                      /\ (a.value = NULL) <=> (returned.result = NULL)
                      /\ ~returned.threw

\* C15 witness: lookupAddress of a resolvable address returned the name
\* after two failed attempts, the cursor two positions on.
C15_Witness ==
    /\ returned.op = "lookupAddress"
    /\ returned.arg = "0xA11CE"
    /\ returned.failed = 2
    /\ returned.result = "alice.eth"
    /\ currentRpcIndex = 2

\* C16: resolveENSName for a name without an on-chain record returns absent
\* after exhausting its retries, that is after 3 attempts, and never throws.
C16_AbsentAfterFullBudget ==
    (returned.op = "resolveENSName" /\ resolveName(returned.arg) = NULL) =>
        /\ returned.result = NULL
        /\ ~returned.threw
        /\ returned.sent = 3

\* C16, amended: resolveENSName for a name without an on-chain record
\* returns absent and never throws; it returns at the first attempt that is
\* answered, the answer being "no record", having made one attempt more than
\* it met failures, and it uses its budget of 3 attempts only when its first
\* two attempts failed.
C16_AbsentAtFirstAnswer ==
    (returned.op = "resolveENSName" /\ resolveName(returned.arg) = NULL) =>
        /\ returned.result = NULL
        /\ ~returned.threw
        /\ returned.sent \in 1..3
        /\ returned.lastOk =>
              /\ returned.answer = NULL
              /\ returned.sent = returned.failed + 1
        /\ ~returned.lastOk => returned.sent = 3 /\ returned.failed = 3
        /\ returned.sent = 3 <=> returned.failed >= 2

\* C16 witness: resolveENSName("nobody.eth") returned absent after a single
\* attempt, which was answered.
C16_Witness ==
    /\ returned.op = "resolveENSName"
    /\ returned.arg = "nobody.eth"
    /\ returned.lastOk
    /\ returned.sent = 1
    /\ returned.failed = 0
    /\ returned.result = NULL

\* C17: with one endpoint of the pool unavailable and every other endpoint
\* answering, every resolution call for a resolvable name returns the
\* resolved value, never absent, whatever other calls are in flight.
C17_OneEndpointDownIsMasked ==
    (returned.op = "resolveENSName" /\ resolveName(returned.arg) # NULL) =>
        returned.result = resolveName(returned.arg)

Min(a, b) == IF a < b THEN a ELSE b

\* C18: every attempt of a call is issued against an endpoint the call has
\* not tried before, so that a call has tried as many distinct endpoints as
\* it has issued attempts, and a call that exhausted its 3 attempts has
\* tried exactly min(3, pool size) distinct endpoints, whatever the other
\* calls in flight do to the cursor.
C18_RetriesTryNewEndpoints ==
    /\ \A c \in BagToSet(calls) :
          Cardinality(c.tried) = Min(c.sent, Len(RPC_ENDPOINTS))
    /\ (returned.op # NONE /\ returned.failed = 3) =>
          Cardinality(returned.tried) = Min(3, Len(RPC_ENDPOINTS))

\* The returned call ended inside its retry loop: every request of
\* resolveENSName, lookupAddress and getTextRecordWithRetry is in the loop;
\* of getENSAvatar and getENSText, the resolver lookup is.
EndedInLoop ==
    \/ returned.op \in {"resolveENSName", "lookupAddress", "getTextRecordWithRetry"}
    \/ returned.op \in {"getENSAvatar", "getENSText"} /\ returned.fieldSent = 0

Tasks == {q.tasks[k] : q \in BagToSet(posts), k \in 1..2}

\* A step that adds user rows adds one row, which a call suspended at
\* prisma.user.create asked for: the row has the name of that call and the
\* address that resolveENSName returned to it.
CreatesOnlyResolved ==
    \A u \in users' \ users :
        /\ users' = users \cup {u}
        /\ \E t \in Tasks :
              /\ t.pc = "create"
              /\ t.ensName = u.ensName
              /\ t.address = u.address
              /\ Boolean(t.address)

\* C20: POST /api/friendship creates a user only for a name for which
\* resolveENSName returned an address, and stores that address: a call that
\* reached prisma.user.create holds the address resolveENSName returned to
\* it, which is the address the name resolves to on chain; a call that has
\* not resolved its name holds no address, and one that threw returned no
\* user; the row a call created carries its name and that address; every
\* stored user has a normalized name and the address it resolves to; and
\* users are created in no other way.
C20_UsersAreValidated ==
    /\ [](/\ \A t \in Tasks :
                /\ t.pc = "create" =>
                      Boolean(t.address) /\ t.address = resolveName(t.ensName)
                /\ t.pc \in {"findUnique", "resolve"} => t.address = NULL
                /\ t.pc = "failed" => t.user = NULL
                /\ (t.pc = "done" /\ t.address # NULL) =>
                      \E u \in users :
                         /\ u.id = t.user
                         /\ u.ensName = t.ensName
                         /\ u.address = t.address
          /\ \A u \in users :
                /\ Boolean(u.address)
                /\ u.address = resolveName(u.ensName)
                /\ u.ensName \in {"alice.eth", "bob.eth"})
    /\ [][CreatesOnlyResolved]_vars

\* C20 witness: a request naming bob.eth and " alice.eth " was answered 400;
\* alice.eth is stored with the address it resolves to, and bob.eth, whose
\* resolution returned absent after three failed attempts, is not stored.
C20_Witness ==
    /\ responded.status = 400
    /\ responded.error = "invalid name"
    /\ responded.initiator = "bob.eth"
    /\ \E u \in users : u.ensName = "alice.eth" /\ u.address = "0xA11CE"
    /\ \A u \in users : u.ensName # "bob.eth"
    /\ currentRpcIndex = 3

\* The pair of users a stored friendship links, whichever of them initiated.
Pair(f) == {f.initiatorId, f.receiverId}

\* C21: at any time at most one friendship is stored between any unordered
\* pair of users, in either direction, whatever the interleaving of the POST
\* requests.
C21_OneFriendshipPerPair ==
    \A f, g \in friendships : Pair(f) = Pair(g) => f = g

\* A friendship is stored between the users named a and b, in either
\* direction.
Befriended(a, b) ==
    \E u, v \in users :
        /\ u.ensName = a
        /\ v.ensName = b
        /\ \E f \in friendships : Pair(f) = {u.id, v.id}

\* The request q has read nothing of the store that it did not find there:
\* each of its validateAndGetOrCreateUser calls is at its first query or has
\* returned, and it has not passed prisma.friendship.findFirst.
Untouched(q) ==
    /\ q.pc \in {"validating", "findFirst"}
    /\ \A k \in 1..2 : q.tasks[k].pc \in {"findUnique", "done"}

\* A step taken while request q is in flight for a pair of users that has a
\* friendship: q stays where it is, or moves on without leaving Untouched,
\* or is answered 409 with the friendships as they were.
AnswersConflict(q) ==
    \/ CopiesIn(q, posts') >= CopiesIn(q, posts)
    \/ \E q2 \in BagToSet(posts') :
          /\ q2.initiator = q.initiator
          /\ q2.receiver = q.receiver
          /\ Untouched(q2)
          /\ CopiesIn(q2, posts') > CopiesIn(q2, posts)
    \/ /\ responded' = Response(409, "exists", q)
       /\ friendships' = friendships

\* C22: a POST for a pair of users that already has a friendship, in either
\* direction, is answered 409 "Friendship already exists" and creates no
\* friendship: from its arrival on it is never rejected with another status
\* and never reaches prisma.friendship.create.
C22_ExistingFriendshipIsConflict ==
    [][\A q \in BagToSet(posts) :
          (Untouched(q) /\ Befriended(q.initiator, q.receiver))
             => AnswersConflict(q)]_vars

\* A request is answered 409 for a friendship stored in the opposite
\* direction.
C22_Witness ==
    /\ responded.status = 409
    /\ responded.error = "exists"
    /\ \E u, v \in users : \E f \in friendships :
          /\ u.ensName = responded.initiator
          /\ v.ensName = responded.receiver
          /\ f.initiatorId = v.id
          /\ f.receiverId = u.id

\* A request naming the same user twice is answered 400 at once, the store
\* left as it was.
SelfIsRefused ==
    (responded'.status # 0 /\ responded'.initiator = responded'.receiver)
       => /\ responded'.status = 400
          /\ users' = users
          /\ friendships' = friendships
          /\ nextId' = nextId

\* C23: no stored friendship has the same user as initiator and receiver: a
\* POST whose two names are equal after trimming and lower-casing is
\* answered 400, never gets past the checks of its body, and creates neither
\* a user nor a friendship.
C23_NoSelfFriendship ==
    /\ [](\A f \in friendships : f.initiatorId # f.receiverId)
    /\ [](\A q \in BagToSet(posts) : q.initiator # q.receiver)
    /\ [][SelfIsRefused]_vars

\* A request whose two names were written differently and are one name once
\* normalized has been refused.
C23_Witness ==
    /\ responded.status = 400
    /\ responded.error = "self"
    /\ responded.initiator = "alice.eth"
    /\ responded.receiver = "alice.eth"

\* The validateAndGetOrCreateUser call t stored a user: it returned a row
\* holding the address it had resolved.
Created(t) == t.pc = "done" /\ t.address # NULL

\* A step that answers 400 to request q because one of its validations
\* threw, or that runs on a validation of q after that answer.
Rejects(q) ==
    /\ CopiesIn(q, posts') < CopiesIn(q, posts)
    /\ \/ q.pc = "validating" /\ responded' = Response(400, "invalid name", q)
       \/ q.pc = "rejected"

\* C27: a POST rejected with status 400 leaves the store unchanged: neither
\* of its validateAndGetOrCreateUser calls has created a user when it is
\* rejected, none creates one afterwards, and no friendship is created, in
\* particular when one name resolves and the other does not.
C27_RejectedLeavesStoreUnchanged ==
    [][\A q \in BagToSet(posts) :
          Rejects(q) => /\ \A k \in 1..2 : ~Created(q.tasks[k])
                        /\ users' = users
                        /\ friendships' = friendships]_vars

\* A step that stores users stores one, under a name that was not stored.
CreatesOnlyNewNames ==
    users' # users =>
        /\ users \subseteq users'
        /\ Cardinality(users' \ users) = 1
        /\ \A u \in users' \ users : findUnique(users, u.ensName) = {}

\* C28: at most one user record is stored per normalized name, whatever the
\* interleaving of the POST requests: a validateAndGetOrCreateUser call that
\* returned holds the id of the one stored user of its name, a user is only
\* created under a name not yet stored, and of two calls creating the same
\* name one fails.
C28_OneUserPerName ==
    /\ [](\A u, v \in users : (u.ensName = v.ensName \/ u.id = v.id) => u = v)
    /\ [](\A t \in Tasks :
            t.pc = "done" => \E u \in users : u.id = t.user /\ u.ensName = t.ensName)
    /\ [](\A f \in friendships :
            {f.initiatorId, f.receiverId} \subseteq {u.id : u \in users})
    /\ [][CreatesOnlyNewNames]_vars

\* Two requests named the same user before it was stored: both resolved the
\* name, one created the user, the create of the other was refused.
C28_Witness ==
    \E t \in Tasks :
        /\ t.pc = "failed"
        /\ t.address # NULL
        /\ findUnique(users, t.ensName) # {}

\* The friendships stored between the users named a and b, in either
\* direction.
Between(fs, a, b) ==
    {f \in fs : \E u, v \in users :
                  u.ensName = a /\ v.ensName = b /\ Pair(f) = {u.id, v.id}}

\* A step that answers a DELETE /api/friendship request with 200 has removed
\* one friendship, which linked the two users named, and none is left
\* between them; users are as they were.
DeletedFriendship ==
    (replied'.route = DELETE_FRIENDSHIP /\ replied'.status = 200)
       => /\ users' = users
          /\ friendships' \subseteq friendships
          /\ friendships \ friendships' \subseteq Between(friendships, replied'.a, replied'.b)
          /\ Cardinality(friendships \ friendships') = 1
          /\ Between(friendships', replied'.a, replied'.b) = {}

\* A step that answers it with 404 leaves users and friendships as they were.
FriendshipNotFound ==
    (replied'.route = DELETE_FRIENDSHIP /\ replied'.status = 404)
       => users' = users /\ friendships' = friendships

\* C24: DELETE /api/friendship for names (a, b) removes the friendship
\* between the two users, whichever of them initiated it, and nothing else;
\* answered 404 it leaves users and friendships unchanged.
C24_DeleteRemovesTheFriendship ==
    [][DeletedFriendship /\ FriendshipNotFound]_vars

\* The friendships that have the user id as initiator or receiver.
Of(fs, id) == {f \in fs : id \in Pair(f)}

\* A step that answers a DELETE /api/user request with 200 has removed the
\* one user of that name together with the friendships of that user, and
\* nothing else.
DeletedUser ==
    (replied'.route = DELETE_USER /\ replied'.status = 200)
       => /\ findUnique(users', replied'.a) = {}
          /\ users' \subseteq users
          /\ \E u \in users :
                /\ u.ensName = replied'.a
                /\ users \ users' = {u}
                /\ Of(friendships', u.id) = {}
                /\ friendships' = friendships \ Of(friendships, u.id)

\* A step that answers it with 404 leaves users and friendships as they were.
UserNotFound ==
    (replied'.route = DELETE_USER /\ replied'.status = 404)
       => /\ users' = users
          /\ friendships' = friendships
          /\ findUnique(users, replied'.a) = {}

\* C25: after a successful DELETE /api/user the user record is gone and no
\* stored friendship has that user as initiator or receiver (every stored
\* friendship links two stored users, at any time); answered 404 the request
\* changes nothing.
C25_DeleteUserCascades ==
    /\ [](\A f \in friendships : Pair(f) \subseteq {u.id : u \in users})
    /\ [][DeletedUser /\ UserNotFound]_vars

\* A user who had a friendship has been deleted: the other user is left,
\* and the friendship went with the deleted one.
C25_Witness ==
    /\ replied.route = DELETE_USER
    /\ replied.status = 200
    /\ replied.a = "alice.eth"
    /\ {u.ensName : u \in users} = {"bob.eth"}
    /\ friendships = {}
    /\ nextId > 3

\* Every edge of a response of GET /api/graph runs between two of its nodes.
EdgesJoinNodes(reply) ==
    \A e \in reply.edges : {e.from, e.to} \subseteq {n.id : n \in reply.nodes}

\* C26: GET /api/graph returns the users and friendships of one consistent
\* state: in every response each edge's from and to is the id of a node of
\* the same response, also when users and friendships are created or
\* deleted while the request is in flight.
C26_GraphIsConsistent ==
    replied.route = GET_GRAPH => EdgesJoinNodes(replied)

\* The strings sent that differ from the name only in case or in surrounding
\* whitespace.
Spellings(name) ==
    IF name = "alice.eth" THEN {"alice.eth", "ALICE.ETH", " alice.eth "} ELSE {name}

Normalized(s) == trim(s) = s /\ toLowerCase(s) = s

\* A DELETE /api/user request is answered 404 only when no stored user has
\* a name the name sent is a spelling of, and answered 200 it has removed
\* the user whose name that is.
DeleteUserBySpelling ==
    /\ (replied'.route = DELETE_USER /\ replied'.status = 404)
          => \A u \in users : replied'.body[1] \notin Spellings(u.ensName)
    /\ (replied'.route = DELETE_USER /\ replied'.status = 200)
          => \E u \in users \ users' : replied'.body[1] \in Spellings(u.ensName)

\* A DELETE /api/friendship request answered 200 has removed a friendship of
\* the two users whose names the names sent are spellings of.
DeleteFriendshipBySpelling ==
    (replied'.route = DELETE_FRIENDSHIP /\ replied'.status = 200)
       => \E u, v \in users : \E f \in friendships \ friendships' :
             /\ replied'.body[1] \in Spellings(u.ensName)
             /\ replied'.body[2] \in Spellings(v.ensName)
             /\ Pair(f) = {u.id, v.id}

\* C29: every stored user name is trimmed, lower-case and ends with ".eth";
\* DELETE /api/friendship and DELETE /api/user look up the trimmed,
\* lower-cased form of the names sent, so that a name differing only in case
\* or surrounding whitespace addresses the same user.
C29_NamesAreNormalized ==
    /\ [](\A u \in users : Normalized(u.ensName) /\ endsWithEth(u.ensName))
    /\ [](\A r \in BagToSet(requests) :
            r.route \in {DELETE_FRIENDSHIP, DELETE_USER} =>
               /\ Normalized(r.a) /\ r.body[1] \in Spellings(r.a)
               /\ r.b # NONE => Normalized(r.b) /\ r.body[2] \in Spellings(r.b))
    /\ [][DeleteUserBySpelling /\ DeleteFriendshipBySpelling]_vars

\* The user alice.eth has been deleted by a request that named it in upper
\* case.
C29_Witness ==
    /\ replied.route = DELETE_USER
    /\ replied.status = 200
    /\ replied.body[1] = "ALICE.ETH"
    /\ replied.a = "alice.eth"
    /\ findUnique(users, "alice.eth") = {}

\* The failed attempts caught so far by the retry loops of the calls of the
\* bag B.
RECURSIVE TotalFailed(_)
TotalFailed(B) ==
    IF BagToSet(B) = {} THEN 0
    ELSE LET c == CHOOSE d \in BagToSet(B) : TRUE
         IN  CopiesIn(c, B) * c.failed
                + TotalFailed([d \in BagToSet(B) \ {c} |-> CopiesIn(d, B)])

\* The failed attempts caught by withRetry and getTextRecordWithRetry in the
\* step: what the calls in flight and the call that ended in the step have
\* caught, less what the calls in flight had caught before.
CaughtInStep == TotalFailed(calls') + returned'.failed - TotalFailed(calls)

\* C30: rotations are never lost or duplicated, whatever the interleaving of
\* the calls: every step advances the cursor, modulo the pool size, by the
\* number of failed attempts the retry loops catch in it, which is one when
\* an attempt of a call fails, its last attempt included, and none otherwise;
\* so the cursor is the initial cursor plus the failures caught so far,
\* modulo the pool size.
C30_OneRotationPerFailure ==
    [][/\ CaughtInStep \in {0, 1}
       /\ currentRpcIndex' = (currentRpcIndex + CaughtInStep) % Len(RPC_ENDPOINTS)
       /\ \A c \in BagToSet(calls) :
             (InRetryLoop(c) /\ Settle(c, FALSE)) => CaughtInStep = 1]_vars

\* Of the first two calls, run concurrently, one has ended on the failure of
\* its third attempt while the other has caught two failures: the cursor
\* has advanced five times.
C30_Witness ==
    /\ returned.failed = 3
    /\ \E c \in BagToSet(calls) : c.failed = 2
    /\ BagCardinality(calls) = 1
    /\ currentRpcIndex = 5 % Len(RPC_ENDPOINTS)

\* A step in which a request of some call is answered, with a value or with
\* none, leaves the cursor and the handle as they were.
AnsweredKeepsModule ==
    \A c \in BagToSet(calls) :
        Settle(c, TRUE) => /\ currentRpcIndex' = currentRpcIndex
                           /\ provider' = provider

\* A call that ran alone has returned a value.
ReturnedValueAlone ==
    /\ returned.op \in WithRetryOps
    /\ returned.result # NULL
    /\ ~returned.threw

\* C31: an attempt that is answered, be it with no record or no resolver,
\* leaves the cursor and the client handle unchanged; after a call that ran
\* alone returned a value the cursor points to the endpoint that served its
\* last attempt, the handle is the one that attempt was issued on, and the
\* call invoked next is issued on that handle.
C31_SuccessKeepsCursor ==
    /\ [][AnsweredKeepsModule]_vars
    /\ [](ReturnedValueAlone =>
            /\ RPC_ENDPOINTS[currentRpcIndex + 1] = returned.handle
            /\ provider = returned.handle)
    /\ [][ReturnedValueAlone =>
            \A d \in BagToSet(calls') : d.handle = returned.handle]_vars

\* A call that ran alone returned a value on its third attempt, served by
\* the third endpoint of the pool, where the cursor now stands.
C31_Witness ==
    /\ ReturnedValueAlone
    /\ returned.failed = 2
    /\ returned.handle = RPC_ENDPOINTS[3]
    /\ currentRpcIndex = 2
    /\ provider = RPC_ENDPOINTS[3]

\* The step in which the avatar query of a getENSAvatar call fails: the call
\* returns absent, the cursor and the handle stay.
AvatarFailureEndsCall ==
    \A c \in BagToSet(calls) :
        (c.op = "getENSAvatar" /\ c.pc = "field" /\ Settle(c, FALSE)) =>
            /\ currentRpcIndex' = currentRpcIndex
            /\ provider' = provider
            /\ returned'.op = "getENSAvatar"
            /\ returned'.result = NULL
            /\ ~returned'.threw
            /\ returned'.fieldSent = 1
            /\ returned'.failed = c.failed

\* C32: in getENSAvatar only the resolver lookup is retried and rotated: a
\* call issues at most 3 resolver lookups and at most 1 avatar query, the
\* avatar query after a lookup that was answered, and a failure of the avatar
\* query returns absent without advancing the cursor or replacing the
\* handle.
C32_OnlyResolverLookupRetried ==
    /\ [](\A c \in BagToSet(calls) :
            c.op = "getENSAvatar" =>
               /\ c.sent <= 3
               /\ c.fieldSent <= 1
               /\ c.fieldSent = 1 <=> c.pc = "field"
               /\ c.pc = "field" => c.failed < c.sent)
    /\ [](returned.op = "getENSAvatar" =>
            returned.sent <= 3 /\ returned.fieldSent <= 1)
    /\ [][AvatarFailureEndsCall]_vars

\* A getENSAvatar call returned absent on the failure of its avatar query,
\* which it issued after its third resolver lookup: the two failed lookups
\* advanced the cursor, the failed avatar query did not.
C32_Witness ==
    /\ returned.op = "getENSAvatar"
    /\ returned.sent = 3
    /\ returned.failed = 2
    /\ returned.fieldSent = 1
    /\ ~returned.lastOk
    /\ returned.result = NULL
    /\ BagCardinality(calls) = 0
    /\ currentRpcIndex = 2

TwoStepOps == {"getENSAvatar", "getENSText", "getTextRecordWithRetry"}

\* The step in which the resolver lookup of a two-step call is answered with
\* a resolver: the field query is in flight on the handle that lookup was
\* issued on, whatever the shared handle is by then.
FieldOnLookupHandle ==
    \A c \in BagToSet(calls) :
        (c.op \in TwoStepOps /\ c.pc = "fn" /\ Boolean(Answer(c)) /\ Settle(c, TRUE)) =>
            \E d \in BagToSet(calls') :
                /\ d.op = c.op /\ d.arg = c.arg /\ d.key = c.key
                /\ d.pc = "field"
                /\ d.fieldSent = c.fieldSent + 1
                /\ d.handle = c.handle
                /\ d.sent = c.sent /\ d.failed = c.failed

\* The calls in flight other than d are in flight after the step, each at
\* the request and on the handle it had.
Spared(d) ==
    \A c \in BagToSet(calls) :
        CopiesIn(c, calls') >= CopiesIn(c, calls) - (IF c = d THEN 1 ELSE 0)

\* A step that rotates the pool leaves every call but one as it was.
RotationSparesOthers ==
    (currentRpcIndex' # currentRpcIndex \/ (provider # NULL /\ provider' # provider))
       => \E d \in BagToSet(calls) : Spared(d)

\* C33: an attempt in flight when another call rotates the shared handle
\* keeps the handle it started with: the rotation neither ends nor redirects
\* it, and within one attempt of a two-step operation the field query
\* (avatar or text) goes to the endpoint that answered the attempt's
\* resolver lookup; the value a call returns from a field query was served
\* on the handle of that attempt.
C33_InFlightKeepsHandle ==
    /\ [][FieldOnLookupHandle /\ RotationSparesOthers]_vars
    /\ [](\A c \in BagToSet(calls) : c.handle \in
              {RPC_ENDPOINTS[n] : n \in 1..Len(RPC_ENDPOINTS)})

\* A field query is in flight on the handle its resolver lookup was answered
\* on, while the failure of another call has replaced the shared handle.
C33_Witness ==
    \E c \in BagToSet(calls) :
        /\ c.pc = "field"
        /\ c.failed = 0
        /\ c.handle = RPC_ENDPOINTS[1]
        /\ provider # c.handle
        /\ currentRpcIndex = 1

\* ceil(a / b)
CeilDiv(a, b) == (a + b - 1) \div b

\* A resolveENSName call has returned absent: its three attempts failed.
FullyFailed ==
    /\ returned.op = "resolveENSName"
    /\ returned.result = NULL

\* C34: with calls issued one at a time and at least one endpoint of the
\* pool always healthy, repeated resolveENSName calls for a resolvable name
\* return its value again and again: fewer consecutive attempts fail than
\* the pool has endpoints, a fully failed call leaves the cursor advanced by
\* 3, and fewer than ceil(pool size / 3) calls in a row fail fully, so that
\* a call succeeds after at most ceil(pool size / 3) consecutive calls.
C34_HealthyEndpointIsReached ==
    /\ [](runLen < Len(RPC_ENDPOINTS))
    /\ [](FullyFailed =>
            /\ runLen % 3 = 0
            /\ currentRpcIndex = (runStart + runLen) % Len(RPC_ENDPOINTS)
            /\ runLen \div 3 < CeilDiv(Len(RPC_ENDPOINTS), 3))
    /\ []<>(returned.op = "resolveENSName" /\ returned.result = resolveName("alice.eth"))

\* The one healthy endpoint of a pool of five is the last: a call has failed
\* fully on the first three, leaving the cursor on the fourth.
C34_Witness ==
    /\ FullyFailed
    /\ Len(RPC_ENDPOINTS) = 5
    /\ down = {RPC_ENDPOINTS[n] : n \in 1..4}
    /\ runLen = 3
    /\ currentRpcIndex = 3

\* The transport calls a call has issued: requests of its retried step and
\* field queries.
Transport(c) == c.sent + c.fieldSent

\* The most transport calls the claim allows one call of the operation; a
\* per-key lookup of getAllTextRecords has 3 attempts of 2 steps.
Allowed(op) ==
    CASE op \in {"resolveENSName", "lookupAddress"} -> 3
      [] op \in {"getENSAvatar", "getENSText"} -> 4
      [] op = "getTextRecordWithRetry" -> 6

\* A step in which a request of call c settles ends the call or leaves it
\* with exactly one more transport call issued.
SettleEndsOrIssuesOne ==
    \A c \in BagToSet(calls) : \A ok \in BOOLEAN :
        Settle(c, ok) =>
            \/ /\ BagCardinality(calls') = BagCardinality(calls) - 1
               /\ returned'.op = c.op
               /\ returned'.sent + returned'.fieldSent = Transport(c)
            \/ /\ BagCardinality(calls') = BagCardinality(calls)
               /\ \E d \in BagToSet(calls') :
                     /\ d.op = c.op /\ d.arg = c.arg /\ d.key = c.key
                     /\ Transport(d) = Transport(c) + 1
                     /\ CopiesIn(d, calls') > CopiesIn(d, calls)

\* C35: every exported operation ends after a bounded number of transport
\* calls, whatever the interleaving: each settled request ends its call or
\* is followed by exactly one more; resolveENSName and lookupAddress issue at
\* most 3, getENSAvatar and getENSText at most 4, each per-key lookup at most
\* 6, and getAllTextRecords, which starts one lookup per key and none again,
\* at most 6 per key, 72 for its 12 keys.
C35_BoundedTransportCalls ==
    /\ [](\A c \in BagToSet(calls) : Transport(c) <= Allowed(c.op))
    /\ [](returned.op # NONE =>
            returned.sent + returned.fieldSent <= Allowed(returned.op))
    /\ [](all.pc = "waiting" =>
            Cardinality(Lookups) + Cardinality(DOMAIN all.settled) = Len(DispatchedKeys))
    /\ [](Len(COMMON_TEXT_RECORDS) * Allowed("getTextRecordWithRetry") = 72)
    /\ [][SettleEndsOrIssuesOne]_vars

\* A per-key lookup has ended after 6 transport calls: three resolver
\* lookups, each answered and followed by a text query that failed.
C35_Witness ==
    /\ returned.op = "getTextRecordWithRetry"
    /\ returned.sent = 3
    /\ returned.fieldSent = 3
    /\ returned.result = NULL

\* What the caller of an operation sees of its outcome o.
Visible(o) == [kind |-> o.kind, value |-> o.value]

\* Inputs the chain has nothing for: a name without address or resolver, an
\* address without name, and for the two-step operations also a name whose
\* resolver holds no such field.
Unresolved(op) ==
    CASE op = "resolveENSName" -> {<<"nobody.eth", NONE>>}
      [] op = "lookupAddress" -> {<<"0xDEAD", NONE>>}
      [] op = "getENSAvatar" -> {<<"nobody.eth", NONE>>, <<"blank.eth", NONE>>}
      [] op = "getENSText" -> {<<"nobody.eth", "email">>, <<"blank.eth", "email">>}

\* Inputs the chain has a value for.
Resolved(op) ==
    CASE op = "resolveENSName" -> {<<"alice.eth", NONE>>}
      [] op = "lookupAddress" -> {<<"0xA11CE", NONE>>}
      [] op = "getENSAvatar" -> {<<"alice.eth", NONE>>}
      [] op = "getENSText" -> {<<"alice.eth", "email">>}

\* The transport answers every request.
AllAnswered == <<TRUE, TRUE>>

\* The transport outcomes on which a call for a resolved input ends in a
\* failure: each attempt of the retried step fails, or the field query does.
Failing(op) ==
    IF op \in {"resolveENSName", "lookupAddress"}
    THEN {<<FALSE, FALSE, FALSE>>}
    ELSE {<<FALSE, FALSE, FALSE>>, <<TRUE, FALSE>>, <<FALSE, TRUE, FALSE>>,
          <<FALSE, FALSE, TRUE, FALSE>>}

\* C36: a genuine non-resolution and a transient failure are reported
\* identically: from every module state, a call the transport answers with
\* no record or no resolver and a call that ends on failed requests both
\* return absent, and what the caller sees is the same in the two cases; and
\* every call that ended on a failure or on an empty answer returned absent
\* without throwing.
C36_AbsenceHidesCause ==
    /\ InFlight = 0 =>
          \A op \in WithRetryOps :
              LET genuine == {Visible(RunAlone(op, in[1], in[2], Module, AllAnswered)) :
                                 in \in Unresolved(op)}
                  transient == {Visible(RunAlone(op, in[1], in[2], Module, p)) :
                                   in \in Resolved(op) \cup Unresolved(op), p \in Failing(op)}
              IN  /\ genuine = transient
                  /\ genuine = {[kind |-> "return", value |-> NULL]}
    /\ (returned.op \in WithRetryOps /\ (~returned.lastOk \/ returned.answer = NULL)) =>
          /\ returned.result = NULL
          /\ ~returned.threw

\* getENSText has returned absent for a name that has no resolver, its one
\* request answered; before it a call had returned absent on three failures.
C36_Witness ==
    /\ returned.op = "getENSText"
    /\ returned.arg = "nobody.eth"
    /\ returned.lastOk
    /\ returned.answer = NULL
    /\ returned.failed = 0
    /\ returned.result = NULL
    /\ InFlight = 0
    /\ currentRpcIndex = 3

\* The calls whose retried step is on its last attempt.
OnLastAttempt ==
    {c \in BagToSet(calls) : c.op \in WithRetryOps /\ c.pc = "fn" /\ c.i = retries - 1}

\* C37: when withRetry exhausts its budget the error it raises is that of
\* its last failed attempt, not of an earlier one, and the exported
\* operation converts it to absent: for every call on its last attempt, a
\* failure of that attempt makes withRetry throw the error of that very
\* attempt and makes the operation return absent; before the last attempt
\* withRetry throws nothing; and a call that returned after three failures
\* held the error of the third.
C37_LastErrorIsRaised ==
    /\ \A c \in OnLastAttempt :
          LET o == withRetry(c, Module, FALSE, NONE)
              r == Resume(c, Module, FALSE, NONE)
          IN  /\ o.kind = "throw"
              /\ o.error = c.sent - 1
              /\ o.error = c.i
              /\ o.error # c.lastError
              /\ r.kind = "return"
              /\ r.value = NULL
    /\ \A c \in BagToSet(calls) :
          (c.op \in WithRetryOps /\ c.pc = "fn" /\ c.i < retries - 1) =>
              withRetry(c, Module, FALSE, NONE).kind = "await"
    /\ (returned.op \in WithRetryOps /\ returned.failed = retries) =>
          /\ returned.lastError = retries - 1
          /\ returned.result = NULL
          /\ ~returned.threw

\* getENSAvatar has returned absent after the third attempt of its resolver
\* lookup failed, holding the error of that attempt.
C37_Witness ==
    /\ returned.op = "getENSAvatar"
    /\ returned.failed = 3
    /\ returned.sent = 3
    /\ returned.lastError = 2
    /\ returned.result = NULL
    /\ ~returned.threw

====
